---- MODULE Spec2Model ----
(***************************************************************************)
(* Model of the mcPeek clients.                                            *)
(*                                                                         *)
(*   SSEMCPClient   (SSEMCPClient.js)   the session engine: handshake,     *)
(*                                      message ids, pending calls,        *)
(*                                      dispatch of incoming messages      *)
(*   MCPOAuthClient (MCPOAuthClient.js) the authorization manager          *)
(*                                                                         *)
(* The browser runs the code single-threaded: an action of the model is    *)
(* one run-to-completion step, from a call or an awaited reply up to the   *)
(* next await.  The server, the network and the page are the environment.  *)
(***************************************************************************)
EXTENDS Integers, Sequences, FiniteSets, TLC

\* Number of API invocations (connect, callTool, initialize, listTools,
\* disconnect) the page makes on one SSEMCPClient.
MaxOps == 3

(***************************************************************************)
(* SSEMCPClient                                                            *)
(***************************************************************************)
VARIABLES
    connected,          \* this.connected
    eventSource,        \* this.eventSource: 0 is null, else an index of sources
    tools,              \* this.tools
    messageId,          \* this.messageId
    pendingRequests,    \* this.pendingRequests: id -> the call that registered
    sessionId,          \* this.sessionId: 0 is undefined
    serverInfo,         \* this.serverInfo
    sources,            \* the EventSource objects created so far, by state
    sent,               \* the requests put on the wire so far
    fetches,            \* requests whose HTTP reply is awaited
    stream,             \* requests whose reply the server will push on the stream
    callbackLog,        \* invocations of callTool callbacks
    framing,            \* how the server answers a POST (fixed per server)
    closing,            \* disconnect() has just returned
    ops,                \* API invocations made so far
    challenged,         \* requests answered with HTTP 401 or 403
    handlers,           \* the page has set onConnected, onDisconnected,
                        \* onToolsReceived and onError (null when constructed)
    fired               \* the ones of these callbacks the last step invoked

sseVars == <<connected, eventSource, tools, messageId, pendingRequests, sessionId,
             serverInfo, sources, sent, fetches, stream, callbackLog, framing,
             closing, ops, challenged, handlers, fired>>

(***************************************************************************)
(* MCPOAuthClient                                                          *)
(***************************************************************************)
VARIABLES
    resourceMetadata,     \* this.resourceMetadata
    authorizationServer,  \* this.authorizationServer
    clientId,             \* this.clientId
    codeVerifier,         \* this.codeVerifier: 0 is null, else the call that made it
    state,                \* this.state: 0 is null, else the call that made it
    accessToken,          \* this.accessToken: 0 is null, else the call that got it
    storedClientId,       \* localStorage mcp_oauth_client_id_<server>
    storedPkce,           \* sessionStorage oauth_code_verifier and oauth_state
    frames,               \* the authorize() calls: where each one stands
    authRequests,         \* the authorization URLs opened in a consent popup
    tokenRequests,        \* the code exchanges sent to a token endpoint
    issuerPath,           \* the issuer URL of the authorization server has a path
    registration,         \* the authorization server has a registration endpoint
    messageOrigin         \* event.origin of the last message event the window
                          \* got while a consent listener was registered

oauthVars == <<resourceMetadata, authorizationServer, clientId, codeVerifier, state,
               accessToken, storedClientId, storedPkce, frames, authRequests,
               tokenRequests, issuerPath, registration, messageOrigin>>

(***************************************************************************)
(* MCPOAuthClient: the tokens, their storage and the clock                 *)
(***************************************************************************)
VARIABLES
    mcpServerUrl,         \* this.mcpServerUrl, as new URL() reads it
    refreshToken,         \* this.refreshToken: "null" is null or undefined
    tokenExpiresAt,       \* this.tokenExpiresAt in ms: 0 is null
    scopes,               \* this.scopes as the sequence of its names: <<>> is
                          \* null or undefined
    grantedScopes,        \* the scopes the tokens of this context were granted
    requestedScopes,      \* the scopes the last authorize() call asks for
    stepUpRetryCount,     \* this.stepUpRetryCount
    sessionTokens,        \* sessionStorage mcp_oauth_<server>, by server
    localRefresh,         \* localStorage mcp_oauth_refresh_<server>, by server
    now,                  \* Date.now()
    requestLog,           \* the requests and consent URLs this client sent
    inflight,             \* the awaits pending in this page, by what they await
    thrown,               \* the error the last step threw, "" for none
    stepUpCalls,          \* handleStepUpAuthorization() calls on this object
    calls                 \* the calls the page made so far

tokenFields == <<refreshToken, tokenExpiresAt, scopes, grantedScopes, sessionTokens,
                 localRefresh>>

tokenEnv == <<mcpServerUrl, stepUpRetryCount, now, requestLog, inflight, thrown,
              stepUpCalls, calls, requestedScopes>>

tokenVars == <<tokenFields, tokenEnv>>

(***************************************************************************)
(* MCPProtocolValidator                                                    *)
(***************************************************************************)
VARIABLES
    received,             \* the message the page hands to the validator
    validation            \* what the validator returned for it

validatorVars == <<received, validation>>

(***************************************************************************)
(* PromptMCPClient                                                         *)
(***************************************************************************)
VARIABLES
    promptConnected,      \* this.connected of the PromptMCPClient
    generating,           \* the method the generateVideo() call awaits, "" none
    tried,                \* the methods that call has tried, in their order
    yielded,              \* what each of them returned
    outcome,              \* how the last generateVideo() call ended
    promptErrors,         \* invocations of onError by that call
    generations           \* generateVideo() calls made so far

promptVars == <<promptConnected, generating, tried, yielded, outcome, promptErrors,
                generations>>

vars == <<sseVars, oauthVars, tokenVars, validatorVars, promptVars>>

\* A request on the wire: the JSON-RPC method and id, the function that sent
\* it, whether callTool was given a callback, and which one it is among the
\* requests of the same method and id.
Request(method, id, via, cb) ==
    [method |-> method, id |-> id, via |-> via, cb |-> cb,
     n |-> 1 + Cardinality({r \in sent : r.method = method /\ r.id = id})]

NoRequest == [method |-> "", id |-> 0, via |-> "", cb |-> FALSE, n |-> 0]

\* JavaScript undefined, as a value of the shape of a result or an error.
Undefined == [kind |-> "undefined", by |-> NoRequest]

\* The catalog a server returns to tools/list.
Catalog == <<"tool-a", "tool-b">>

\* The result a server returns to a request, by the request's method.
ResultKind(method) ==
    CASE method = "initialize" -> "caps"
      [] method = "tools/list" -> "tools"
      [] OTHER -> "content"

\* The JSON-RPC reply of the server to request r: it echoes the id and carries
\* either a result or an error made for that request.
Reply(r, variant) ==
    [id     |-> r.id,
     result |-> IF variant = "result"
                THEN [kind |-> ResultKind(r.method), by |-> r] ELSE Undefined,
     error  |-> IF variant = "error" THEN [kind |-> "error", by |-> r] ELSE Undefined]

\* A message the server sends on its own: a notification, without an id.
Notification == [id |-> 0, result |-> Undefined, error |-> Undefined]

Variants == {"result", "error"}

\* An HTTP response body: its content type and its lines.  A line is a prefix
\* and the JSON text after it.
JsonBody(msg) ==
    [ctype |-> "application/json", lines |-> <<[pre |-> "", json |-> msg]>>]

FrameBody(msg) ==
    [ctype |-> "text/event-stream",
     lines |-> <<[pre |-> "event: message", json |-> Notification],
                 [pre |-> "data: ", json |-> msg]>>]

\* 202 Accepted: nothing in the body, the reply follows on the event stream.
EmptyBody == [ctype |-> "", lines |-> <<>>]

\* No HTTP response (a network error), or one whose status is not ok.
Failure == [ctype |-> "failure", lines |-> <<>>]

\* An HTTP response of status 401 or 403: not ok either.
Unauthorized == [ctype |-> "unauthorized", lines |-> <<>>]

\* responseText.includes('event: message')
IncludesEventMessage(body) ==
    \E i \in 1..Len(body.lines) : body.lines[i].pre = "event: message"

\* responseText.split('\n').find(line => line.startsWith('data: ')): the index
\* of the first data line, 0 when there is none.
FindDataLine(body) ==
    IF \E i \in 1..Len(body.lines) : body.lines[i].pre = "data: "
    THEN CHOOSE i \in 1..Len(body.lines) :
            /\ body.lines[i].pre = "data: "
            /\ \A j \in 1..(i - 1) : body.lines[j].pre # "data: "
    ELSE 0

\* The body holds an event frame the text-sniffing code of initializeSession
\* and listTools reads.
HasFrame(body) == IncludesEventMessage(body) /\ FindDataLine(body) # 0

\* JSON.parse(dataLine.substring(6))
ExtractFrame(body) == body.lines[FindDataLine(body)].json

\* The ways a server answers a POST: the reply as a JSON document in the body,
\* the reply as an event frame in the body, or 202 Accepted with the reply
\* pushed on the event stream.
Framings == {"json", "frame", "stream"}

\* The bodies the server can answer request r with.
Bodies(r) ==
    CASE framing = "json"  -> {JsonBody(Reply(r, v)) : v \in Variants}
      [] framing = "frame" -> {FrameBody(Reply(r, v)) : v \in Variants}
      [] OTHER -> {EmptyBody}

\* What a fetch of request r can come back with.
Outcomes(r) == {Failure} \cup Bodies(r)

\* The server pushes the reply on the event stream when it accepted the
\* request with an empty body.
Pushed(r, body) == IF body = EmptyBody THEN {r} ELSE {}

\* getNextId(): return this.messageId++
getNextId == messageId

AfterGetNextId == messageId + 1

\* The id initializeSession writes into its initialize request.
InitializeSessionId == 1

\* The Map pendingRequests as a set of <<id, call>> entries, one per id.
MapHas(map, id) == \E p \in map : p[1] = id

MapGet(map, id) == (CHOOSE p \in map : p[1] = id)[2]

MapDelete(map, id) == {p \in map : p[1] # id}

MapSet(map, id, call) == MapDelete(map, id) \cup {<<id, call>>}

\* if (this.onError) this.onError(...), and so for each of the callbacks:
\* the callbacks invoked, none when the page has set none.
Fire(names) == IF handlers THEN names ELSE <<>>

SSEFields ==
    /\ connected = FALSE
    /\ eventSource = 0
    /\ tools = <<>>
    /\ messageId = 1
    /\ pendingRequests = {}
    /\ sessionId = 0
    /\ serverInfo = Undefined
    /\ sources = <<>>
    /\ sent = {}
    /\ fetches = {}
    /\ stream = {}
    /\ callbackLog = {}
    /\ framing \in Framings
    /\ closing = FALSE
    /\ ops = 0
    /\ challenged = {}
    /\ fired = <<>>

\* An SSEMCPClient just constructed: its callbacks are null.
SSEInit == SSEFields /\ handlers = FALSE

(* ---- handleMCPMessage(message) ---------------------------------------- *)

\* this.onMessage is set: the page installs its callbacks after construction.
onMessage == TRUE

\* if (message.id && message.result && message.result.capabilities)
IsInitializeResponse(m) == m.id # 0 /\ m.result.kind = "caps"

\* if (message.id && message.result && Array.isArray(message.result.tools))
IsToolsResponse(m) == m.id # 0 /\ m.result.kind = "tools"

\* if (message.id && this.pendingRequests.has(message.id))
IsPendingResponse(m) == m.id # 0 /\ MapHas(pendingRequests, m.id)

\* The call whose callback handleMCPMessage invokes for m.
ResolvedCall(m) == MapGet(pendingRequests, m.id)

\* message.result || message.error
CallbackValue(m) == IF m.result # Undefined THEN m.result ELSE m.error

\* listTools() sends a request only when a session id is set.
ListToolsSends == sessionId # 0

\* The tools/list request listTools() sends.
ListToolsRequest == Request("tools/list", getNextId, "listTools", FALSE)

\* The paths of dispatch message m takes: the generic observer, the handshake
\* (tools are requested), the catalog (tools are stored), the pending call.
DispatchPaths(m) ==
    (IF onMessage THEN {"observer"} ELSE {}) \cup
    (IF IsInitializeResponse(m) THEN {"handshake"} ELSE {}) \cup
    (IF IsToolsResponse(m) THEN {"catalog"} ELSE {}) \cup
    (IF IsPendingResponse(m) THEN {"pending"} ELSE {})

\* How many times the callback of a call has run.
Invocations(call) == Cardinality({e \in callbackLog : e.call = call})

\* The requests the listTools() call inside handleMCPMessage(m) sends.
ListToolsStarted(m) ==
    IF IsInitializeResponse(m) /\ ListToolsSends THEN {ListToolsRequest} ELSE {}

\* this.tools after handleMCPMessage(m)
ToolsAfter(m) == IF IsToolsResponse(m) THEN Catalog ELSE tools

\* this.pendingRequests after handleMCPMessage(m)
PendingAfter(m) ==
    IF IsPendingResponse(m) THEN MapDelete(pendingRequests, m.id) ELSE pendingRequests

\* The callback invocations after handleMCPMessage(m):
\* request.callback(message.result || message.error, message.error ? true : false)
CallbacksAfter(m) ==
    IF IsPendingResponse(m)
    THEN callbackLog \cup
            {[call    |-> ResolvedCall(m),
              nth     |-> Invocations(ResolvedCall(m)) + 1,
              value   |-> CallbackValue(m),
              isError |-> m.error # Undefined]}
    ELSE callbackLog

\* The callbacks handleMCPMessage(m) invokes besides onMessage and the
\* callback of a pending call: onToolsReceived for a catalog.
FiredBy(m) == IF IsToolsResponse(m) THEN Fire(<<"onToolsReceived">>) ELSE <<>>

\* The effect of handleMCPMessage(m) on everything but fetches, which the
\* caller settles together with the reply it consumed.
handleMCPMessage(m) ==
    /\ sent' = sent \cup ListToolsStarted(m)
    /\ messageId' = IF ListToolsStarted(m) # {} THEN AfterGetNextId ELSE messageId
    /\ tools' = ToolsAfter(m)
    /\ pendingRequests' = PendingAfter(m)
    /\ callbackLog' = CallbacksAfter(m)
    /\ fired' = FiredBy(m)

(* ---- the API and the handlers ------------------------------------------ *)

\* The initialize request initializeSession() sends, with the literal id 1.
InitializeRequest ==
    Request("initialize", InitializeSessionId, "initializeSession", FALSE)

\* connect(): returns at once when connected, else starts initializeSession().
connect ==
    /\ ops < MaxOps
    /\ ops' = ops + 1
    /\ IF connected
       THEN UNCHANGED <<sent, fetches>>
       ELSE /\ sent' = sent \cup {InitializeRequest}
            /\ fetches' = fetches \cup {InitializeRequest}
    /\ closing' = FALSE
    /\ fired' = <<>>
    /\ UNCHANGED <<challenged, handlers, oauthVars, tokenVars, validatorVars,
                   promptVars>>
    /\ UNCHANGED <<framing, connected, eventSource, tools, messageId,
                   pendingRequests, sessionId, serverInfo, sources, stream,
                   callbackLog>>

\* this.serverInfo after initializeSession() read the body of an ok response.
ServerInfoAfter(body) ==
    IF HasFrame(body) THEN ExtractFrame(body).result ELSE serverInfo

\* A connect() that calls connectSSE() after its catch: the stream is opened
\* after a failed initializeSession() as well.
initializeSessionThenConnects(r, body) ==
    /\ r \in fetches
    /\ r.via = "initializeSession"
    /\ fetches' = fetches \ {r}
    /\ IF body = Failure
       THEN /\ fired' = Fire(<<"onError">>)
            /\ UNCHANGED <<sessionId, serverInfo, stream>>
       ELSE /\ sessionId' = 1
            /\ serverInfo' = ServerInfoAfter(body)
            /\ stream' = stream \cup Pushed(r, body)
            /\ fired' = <<>>
    /\ sources' = Append(sources, "connecting")
    /\ eventSource' = Len(sources) + 1
    /\ closing' = FALSE
    /\ UNCHANGED <<challenged, handlers, oauthVars, tokenVars, validatorVars,
                   promptVars>>
    /\ UNCHANGED <<framing, connected, tools, messageId, pendingRequests, sent,
                   callbackLog, ops>>

\* initializeSession() after its fetch: a failure throws into connect()'s
\* catch; otherwise the session id is set, the server info is taken from an
\* event frame, and connect() goes on to connectSSE().
initializeSession(r, body) ==
    /\ r \in fetches
    /\ r.via = "initializeSession"
    /\ fetches' = fetches \ {r}
    /\ IF body = Failure
       THEN /\ fired' = Fire(<<"onError">>)
            /\ UNCHANGED <<sessionId, serverInfo, sources, eventSource, stream>>
       ELSE /\ sessionId' = 1
            /\ serverInfo' = ServerInfoAfter(body)
            /\ sources' = Append(sources, "connecting")
            /\ eventSource' = Len(sources) + 1
            /\ stream' = stream \cup Pushed(r, body)
            /\ fired' = <<>>
    /\ closing' = FALSE
    /\ UNCHANGED <<challenged, handlers, oauthVars, tokenVars, validatorVars,
                   promptVars>>
    /\ UNCHANGED <<framing, connected, tools, messageId, pendingRequests, sent,
                   callbackLog, ops>>

InitializeReply ==
    \E r \in fetches : \E body \in Outcomes(r) : initializeSession(r, body)

\* eventSource.onopen
onopen(e) ==
    /\ sources[e] = "connecting"
    /\ sources' = [sources EXCEPT ![e] = "open"]
    /\ connected' = TRUE
    /\ closing' = FALSE
    /\ fired' = Fire(<<"onConnected">>)
    /\ UNCHANGED <<challenged, handlers, oauthVars, tokenVars, validatorVars,
                   promptVars>>
    /\ UNCHANGED <<framing, eventSource, tools, messageId, pendingRequests,
                   sessionId, serverInfo, sent, fetches, stream, callbackLog, ops>>

\* eventSource.onerror: the browser goes back to connecting (a stream it gives
\* up for good is one that never opens again).
onerror(e) ==
    /\ sources[e] \in {"connecting", "open"}
    /\ sources' = [sources EXCEPT ![e] = "connecting"]
    /\ connected' = FALSE
    /\ closing' = FALSE
    /\ fired' = Fire(<<"onError">>)
    /\ UNCHANGED <<challenged, handlers, oauthVars, tokenVars, validatorVars,
                   promptVars>>
    /\ UNCHANGED <<framing, eventSource, tools, messageId, pendingRequests,
                   sessionId, serverInfo, sent, fetches, stream, callbackLog, ops>>

\* eventSource.onmessage with the reply to request r: JSON.parse, then
\* handleMCPMessage.
onmessage(e, r, variant) ==
    /\ sources[e] = "open"
    /\ r \in stream
    /\ stream' = stream \ {r}
    /\ handleMCPMessage(Reply(r, variant))
    /\ fetches' = fetches \cup ListToolsStarted(Reply(r, variant))
    /\ closing' = FALSE
    /\ UNCHANGED <<challenged, handlers, oauthVars, tokenVars, validatorVars,
                   promptVars>>
    /\ UNCHANGED <<framing, connected, eventSource, sessionId, serverInfo,
                   sources, ops>>

SSEOpen == \E e \in 1..Len(sources) : onopen(e)

SSEError == \E e \in 1..Len(sources) : onerror(e)

SSEMessage ==
    \E e \in 1..Len(sources) : \E r \in stream : \E v \in Variants : onmessage(e, r, v)

\* The tools/call request callTool() sends.
CallRequest(cb) == Request("tools/call", getNextId, "sendMessage", cb)

\* callTool(toolName, args, callback): the id, the pending entry when a
\* callback is given, and sendMessage() up to its fetch.
callTool(cb) ==
    /\ ops < MaxOps
    /\ ops' = ops + 1
    /\ sent' = sent \cup {CallRequest(cb)}
    /\ messageId' = AfterGetNextId
    /\ pendingRequests' = IF cb THEN MapSet(pendingRequests, getNextId, CallRequest(cb))
                          ELSE pendingRequests
    /\ fetches' = fetches \cup {CallRequest(cb)}
    /\ closing' = FALSE
    /\ fired' = <<>>
    /\ UNCHANGED <<challenged, handlers, oauthVars, tokenVars, validatorVars,
                   promptVars>>
    /\ UNCHANGED <<framing, connected, eventSource, tools, sessionId, serverInfo,
                   sources, stream, callbackLog>>

CallTool == \E cb \in BOOLEAN : callTool(cb)

\* initialize(): an initialize request with the next id, through sendMessage().
initialize ==
    /\ ops < MaxOps
    /\ ops' = ops + 1
    /\ sent' = sent \cup {Request("initialize", getNextId, "sendMessage", FALSE)}
    /\ messageId' = AfterGetNextId
    /\ fetches' = fetches \cup {Request("initialize", getNextId, "sendMessage", FALSE)}
    /\ closing' = FALSE
    /\ fired' = <<>>
    /\ UNCHANGED <<challenged, handlers, oauthVars, tokenVars, validatorVars,
                   promptVars>>
    /\ UNCHANGED <<framing, connected, eventSource, tools, pendingRequests,
                   sessionId, serverInfo, sources, stream, callbackLog>>

\* contentType && contentType.includes('application/json')
IsJson(body) == body.ctype = "application/json"

\* await response.json()
ResponseJson(body) == body.lines[1].json

\* this.pendingRequests after sendMessage() handled the response to its POST.
PendingAfterSend(body) ==
    IF IsJson(body) THEN PendingAfter(ResponseJson(body)) ELSE pendingRequests

\* sendMessage() after its fetch: a response that is not ok, a 401 or a 403
\* like any other, throws to the caller; a body of content type
\* application/json goes to handleMCPMessage; any other body is left alone,
\* the reply being expected on the event stream.
sendMessage(r, body) ==
    /\ r \in fetches
    /\ r.via = "sendMessage"
    /\ IF IsJson(body)
       THEN /\ handleMCPMessage(ResponseJson(body))
            /\ fetches' = (fetches \ {r}) \cup ListToolsStarted(ResponseJson(body))
            /\ UNCHANGED stream
       ELSE /\ fetches' = fetches \ {r}
            /\ stream' = stream \cup Pushed(r, body)
            /\ fired' = <<>>
            /\ UNCHANGED <<sent, messageId, tools, pendingRequests, callbackLog>>
    /\ challenged' = IF body = Unauthorized THEN challenged \cup {r} ELSE challenged
    /\ closing' = FALSE
    /\ UNCHANGED <<handlers, oauthVars, tokenVars, validatorVars, promptVars>>
    /\ UNCHANGED <<framing, connected, eventSource, sessionId, serverInfo,
                   sources, ops>>

SendReply ==
    \E r \in fetches : \E body \in Outcomes(r) : sendMessage(r, body)

\* The server answers a POST of sendMessage() with 401 or 403.
SendChallenged == \E r \in fetches : sendMessage(r, Unauthorized)

\* listTools() called by the page: nothing without a session id, else a
\* tools/list request with the next id.
listTools ==
    /\ ops < MaxOps
    /\ ops' = ops + 1
    /\ IF ListToolsSends
       THEN /\ sent' = sent \cup {ListToolsRequest}
            /\ messageId' = AfterGetNextId
            /\ fetches' = fetches \cup {ListToolsRequest}
       ELSE UNCHANGED <<sent, messageId, fetches>>
    /\ closing' = FALSE
    /\ fired' = <<>>
    /\ UNCHANGED <<challenged, handlers, oauthVars, tokenVars, validatorVars,
                   promptVars>>
    /\ UNCHANGED <<framing, connected, eventSource, tools, pendingRequests,
                   sessionId, serverInfo, sources, stream, callbackLog>>

\* this.tools after listTools() read the body of a response:
\* if (data.result && data.result.tools) this.tools = data.result.tools
TakesTools(body) == HasFrame(body) /\ ExtractFrame(body).result.kind = "tools"

ToolsAfterList(body) == IF TakesTools(body) THEN Catalog ELSE tools

\* listTools() after its fetch: a network error is caught and logged; the
\* catalog is taken from an event frame whose result has tools.
listToolsReply(r, body) ==
    /\ r \in fetches
    /\ r.via = "listTools"
    /\ fetches' = fetches \ {r}
    /\ tools' = ToolsAfterList(body)
    /\ fired' = IF TakesTools(body) THEN Fire(<<"onToolsReceived">>) ELSE <<>>
    /\ stream' = stream \cup Pushed(r, body)
    /\ closing' = FALSE
    /\ UNCHANGED <<challenged, handlers, oauthVars, tokenVars, validatorVars,
                   promptVars>>
    /\ UNCHANGED <<framing, connected, eventSource, messageId, pendingRequests,
                   sessionId, serverInfo, sources, sent, callbackLog, ops>>

ListReply ==
    \E r \in fetches : \E body \in Outcomes(r) : listToolsReply(r, body)

\* A disconnect() that closes the stream and keeps the pending calls.
disconnectKeepsPending ==
    /\ ops < MaxOps
    /\ ops' = ops + 1
    /\ IF eventSource # 0
       THEN /\ sources' = [sources EXCEPT ![eventSource] = "closed"]
            /\ eventSource' = 0
       ELSE UNCHANGED <<sources, eventSource>>
    /\ connected' = FALSE
    /\ tools' = <<>>
    /\ closing' = TRUE
    /\ fired' = Fire(<<"onDisconnected">>)
    /\ UNCHANGED <<challenged, handlers, oauthVars, tokenVars, validatorVars,
                   promptVars>>
    /\ UNCHANGED <<framing, messageId, sessionId, serverInfo, sent, fetches,
                   stream, callbackLog, pendingRequests>>

\* disconnect()
disconnect ==
    /\ ops < MaxOps
    /\ ops' = ops + 1
    /\ IF eventSource # 0
       THEN /\ sources' = [sources EXCEPT ![eventSource] = "closed"]
            /\ eventSource' = 0
       ELSE UNCHANGED <<sources, eventSource>>
    /\ connected' = FALSE
    /\ tools' = <<>>
    /\ pendingRequests' = {}
    /\ closing' = TRUE
    /\ fired' = Fire(<<"onDisconnected">>)
    /\ UNCHANGED <<challenged, handlers, oauthVars, tokenVars, validatorVars,
                   promptVars>>
    /\ UNCHANGED <<framing, messageId, sessionId, serverInfo, sent, fetches,
                   stream, callbackLog>>

SSENext ==
    \/ connect
    \/ InitializeReply
    \/ SSEOpen
    \/ SSEError
    \/ SSEMessage
    \/ CallTool
    \/ initialize
    \/ SendReply
    \/ listTools
    \/ ListReply
    \/ disconnect

(***************************************************************************)
(* MCPOAuthClient: authorize() and the phases it awaits                    *)
(***************************************************************************)

\* Number of authorize() calls made on one MCPOAuthClient; they may overlap.
MaxAuthorize == 2

Calls == 1..MaxAuthorize

\* null
Null == [kind |-> "null"]

\* A protected-resource metadata document: the number of authorization
\* servers it names.
ResourceDocs == {[kind |-> "resource", servers |-> n] : n \in {0, 1}}

\* An authorization-server metadata document: whether
\* code_challenge_methods_supported includes S256; every document of the
\* server has its registration_endpoint, when it has one.
ServerDocs ==
    {[kind |-> "server", s256 |-> a, registration |-> registration] : a \in BOOLEAN}

\* A fetch that threw or came back with a status that is not ok.
NoDoc == [kind |-> "failure"]

\* wellKnownPaths of discoverProtectedResourceMetadata: the path-specific
\* location, then the bare one.
ResourceCandidates == 2

\* wellKnownPaths of discoverAuthorizationServer: three locations for an
\* issuer with a path, two for one without.
ServerCandidates == IF issuerPath THEN 3 ELSE 2

\* !authorization_servers || authorization_servers.length === 0
LacksServers(doc) == doc.servers = 0

\* !code_challenge_methods_supported || !...includes('S256')
LacksS256(doc) == ~doc.s256

Frame(pc, i, n, rejected, error) ==
    [pc |-> pc, i |-> i, n |-> n, rejected |-> rejected, error |-> error]

Fail(f, error) == [f EXCEPT !.pc = "failed", !.i = 0, !.n = 0, !.error = error]

\* The frame once its discovery loops are over.
Past(f, pc) == [f EXCEPT !.pc = pc, !.i = 0, !.n = 0]

\* window.location.origin of the page, the origin of another page, and the
\* value of messageOrigin before any message.
PageOrigin == "page"

ForeignOrigin == "elsewhere"

NoOrigin == ""

OAuthInit ==
    /\ resourceMetadata = Null
    /\ authorizationServer = Null
    /\ clientId = "null"
    /\ codeVerifier = 0
    /\ state = 0
    /\ accessToken = 0
    /\ storedClientId = "null"
    /\ storedPkce = 0
    /\ frames = [c \in Calls |-> Frame("idle", 0, 0, FALSE, "")]
    /\ authRequests = {}
    /\ tokenRequests = {}
    /\ messageOrigin = NoOrigin
    /\ issuerPath \in BOOLEAN
    /\ registration \in BOOLEAN

(***************************************************************************)
(* MCPOAuthClient: the resource indicator and the token storage            *)
(***************************************************************************)

\* The server URLs the client is built with, as new URL() splits them: host
\* includes the port, pathname is the sequence of its slashes and segments.
Urls ==
    {[protocol |-> "https:", host |-> "mcp.example", pathname |-> <<"/">>,
      search |-> "", hash |-> ""],
     [protocol |-> "https:", host |-> "mcp.example:8443",
      pathname |-> <<"/", "mcp", "/">>, search |-> "?debug=1", hash |-> "#top"]}

\* canonicalUri.replace(/\/+$/, ''): the trailing slashes removed.
RECURSIVE StripTrailingSlashes(_)
StripTrailingSlashes(uri) ==
    IF uri # <<>> /\ uri[Len(uri)] = "/"
    THEN StripTrailingSlashes(SubSeq(uri, 1, Len(uri) - 1))
    ELSE uri

\* A resource indicator that is the server URL as given.
rawResourceUri ==
    <<mcpServerUrl.protocol, "//", mcpServerUrl.host>> \o mcpServerUrl.pathname
        \o <<mcpServerUrl.search, mcpServerUrl.hash>>

\* getCanonicalResourceUri(): protocol//host, the pathname unless it is "/",
\* trailing slashes removed.
getCanonicalResourceUri ==
    LET url == mcpServerUrl
        origin == <<url.protocol, "//", url.host>>
    IN  StripTrailingSlashes(
            IF url.pathname # <<>> /\ url.pathname # <<"/">>
            THEN origin \o url.pathname
            ELSE origin)

\* url.pathname.replace(/\/+$/, '')
basePath == StripTrailingSlashes(mcpServerUrl.pathname)

\* The well-known prefix of the protected-resource metadata.
WellKnownResource == "/.well-known/oauth-protected-resource"

\* wellKnownPaths of discoverProtectedResourceMetadata(), in the order of
\* the loop: the prefix with the path of the server, then the prefix alone.
wellKnownPaths == << <<WellKnownResource>> \o basePath, <<WellKnownResource>> >>

\* The server of this client and the server of another MCPOAuthClient of the
\* same page: the storage keys mcp_oauth_..._<mcpServerUrl> of the two.
Self == "self"

Other == "other"

Servers == {Self, Other}

\* getItem() returned null.
NoEntry == [absent |-> TRUE]

\* The refresh tokens a token endpoint issues: with the code exchange, and
\* rotated with a refresh.
RefreshTokens == {"rt", "rt2"}

\* expires_in of a token response in seconds, 0 when it has none.
Lifetimes == {0, 90}

\* The ok responses of the token endpoint to a code exchange.  scope tells
\* whether the response has a scope member; it then names what was granted.
TokenResponses ==
    {[refresh_token |-> r, expires_in |-> e, scope |-> s] :
        r \in {"null", "rt"}, e \in Lifetimes, s \in BOOLEAN}

\* The ok responses of the token endpoint to a refresh.
RefreshResponses ==
    {[refresh_token |-> r, expires_in |-> e, scope |-> s] :
        r \in {"null", "rt2"}, e \in Lifetimes, s \in BOOLEAN}

\* A response of the token endpoint that is not ok.
ErrorResponse(error) == [error |-> error]

\* The margin of getAccessToken() in ms.
RefreshMargin == 60000

\* The step of the clock.
TickMs == RefreshMargin \div 2

\* if (expires_in) tokenExpiresAt = Date.now() + expires_in * 1000
ExpiresAtAfter(resp) ==
    IF resp.expires_in # 0 THEN now + resp.expires_in * 1000 ELSE tokenExpiresAt

\* A storeTokens() that writes all of tokenData to sessionStorage.
storeTokenData(access, refresh, expires, granted) ==
    /\ sessionTokens' = [sessionTokens EXCEPT ![Self] =
          [access_token |-> access, refresh_token |-> refresh,
           expires_at |-> expires, scopes |-> granted]]
    /\ localRefresh' =
          IF refresh # "null"
          THEN [localRefresh EXCEPT ![Self] =
                   [refresh_token |-> refresh, scopes |-> granted]]
          ELSE localRefresh

\* storeTokens(), for the values the fields were just given: the access
\* token and its expiry go to sessionStorage, the refresh token, when there
\* is one, and the scopes to localStorage.
storeTokens(access, refresh, expires, granted) ==
    /\ sessionTokens' = [sessionTokens EXCEPT ![Self] =
          [access_token |-> access, expires_at |-> expires]]
    /\ localRefresh' =
          IF refresh # "null"
          THEN [localRefresh EXCEPT ![Self] =
                   [refresh_token |-> refresh, scopes |-> granted]]
          ELSE localRefresh

\* The fields after loadTokens().
LoadedAccessToken ==
    IF sessionTokens[Self] # NoEntry THEN sessionTokens[Self].access_token ELSE accessToken

LoadedExpiresAt ==
    IF sessionTokens[Self] # NoEntry THEN sessionTokens[Self].expires_at ELSE tokenExpiresAt

LoadedRefreshToken ==
    IF localRefresh[Self] # NoEntry THEN localRefresh[Self].refresh_token ELSE refreshToken

LoadedScopes ==
    IF localRefresh[Self] # NoEntry THEN localRefresh[Self].scopes ELSE scopes

\* A clearTokens() that leaves the refresh token in localStorage.
clearTokensKeepsRefresh ==
    /\ accessToken' = 0
    /\ refreshToken' = "null"
    /\ tokenExpiresAt' = 0
    /\ scopes' = <<>>
    /\ grantedScopes' = <<>>
    /\ sessionTokens' = [sessionTokens EXCEPT ![Self] = NoEntry]
    /\ localRefresh' = localRefresh

\* clearTokens()
clearTokens ==
    /\ accessToken' = 0
    /\ refreshToken' = "null"
    /\ tokenExpiresAt' = 0
    /\ scopes' = <<>>
    /\ grantedScopes' = <<>>
    /\ sessionTokens' = [sessionTokens EXCEPT ![Self] = NoEntry]
    /\ localRefresh' = [localRefresh EXCEPT ![Self] = NoEntry]

\* The scopes authorize() asks for when it is called without any:
\* scopes_supported of the resource metadata, or 'mcp:tools:read'.
DefaultScopes == <<"read">>

\* tokenResponse.scope: the scopes granted when the response names them,
\* undefined when it has no scope member.
ScopeOf(resp, held) == IF resp.scope THEN held ELSE <<>>

\* The end of exchangeCodeForToken() for an ok response to a request that
\* asked for the scopes asked: the fields, then storeTokens(), then the PKCE
\* values removed from sessionStorage.
TokensFromExchange(token, resp, asked) ==
    /\ accessToken' = token
    /\ refreshToken' = resp.refresh_token
    /\ scopes' = ScopeOf(resp, asked)
    /\ grantedScopes' = asked
    /\ tokenExpiresAt' = ExpiresAtAfter(resp)
    /\ storeTokens(accessToken', refreshToken', tokenExpiresAt', scopes')
    /\ storedPkce' = 0

\* The fields and the storage of a client just constructed, in a page where
\* nothing is stored yet.
TokensInit ==
    /\ mcpServerUrl \in Urls
    /\ refreshToken = "null"
    /\ tokenExpiresAt = 0
    /\ scopes = <<>>
    /\ grantedScopes = <<>>
    /\ requestedScopes = <<>>
    /\ stepUpRetryCount = 0
    /\ sessionTokens = [s \in Servers |-> NoEntry]
    /\ localRefresh = [s \in Servers |-> NoEntry]
    /\ now = 0
    /\ requestLog = {}
    /\ inflight = [p \in {"discovery", "consent", "exchange", "refresh"} |-> 0]
    /\ thrown = ""
    /\ stepUpCalls = 0
    /\ calls = 0

(***************************************************************************)
(* MCPOAuthClient: the steps of authorize()                                *)
(***************************************************************************)

\* authorize(): up to the first fetch of discoverProtectedResourceMetadata().
\* The calls are numbered in the order they are made.
authorize(c) ==
    /\ frames[c].pc = "idle"
    /\ \A b \in Calls : b < c => frames[b].pc # "idle"
    /\ frames' = [frames EXCEPT ![c] = Frame("resource", 1, ResourceCandidates, FALSE, "")]
    /\ UNCHANGED <<resourceMetadata, authorizationServer, clientId, codeVerifier,
                   state, accessToken, storedClientId, storedPkce, authRequests,
                   tokenRequests>>
    /\ UNCHANGED <<sseVars, issuerPath, registration, messageOrigin, tokenVars,
                   validatorVars, promptVars>>

\* The frame after candidate i of a discovery loop yielded nothing: the next
\* candidate, or the throw after the loop.
NextCandidate(f, error) ==
    IF f.i < f.n THEN [f EXCEPT !.i = f.i + 1] ELSE Fail(f, error)

\* A discoverProtectedResourceMetadata() that goes on to the next location
\* after a valid document.
discoverProtectedResourceKeepsProbing(c, doc) ==
    /\ frames[c].pc = "resource"
    /\ resourceMetadata' = IF doc = NoDoc THEN resourceMetadata ELSE doc
    /\ frames' = [frames EXCEPT ![c] =
          IF frames[c].i < frames[c].n
          THEN NextCandidate(frames[c], "AuthDiscoveryError")
          ELSE IF doc = NoDoc \/ LacksServers(doc)
          THEN NextCandidate(frames[c], "AuthDiscoveryError")
          ELSE Frame("server", 1, ServerCandidates, FALSE, "")]
    /\ UNCHANGED <<authorizationServer, clientId, codeVerifier, state, accessToken,
                   storedClientId, storedPkce, authRequests, tokenRequests>>
    /\ UNCHANGED <<sseVars, issuerPath, registration, messageOrigin, tokenVars,
                   validatorVars, promptVars>>

\* discoverProtectedResourceMetadata() after the fetch of candidate i.  An ok
\* response is stored before it is validated; a document without
\* authorization servers throws into the catch of the loop.  A valid document
\* returns, and discoverAuthorizationServer() starts its own loop.
discoverProtectedResourceMetadata(c, doc) ==
    /\ frames[c].pc = "resource"
    /\ resourceMetadata' = IF doc = NoDoc THEN resourceMetadata ELSE doc
    /\ frames' = [frames EXCEPT ![c] =
          IF doc = NoDoc \/ LacksServers(doc)
          THEN NextCandidate(frames[c], "AuthDiscoveryError")
          ELSE Frame("server", 1, ServerCandidates, FALSE, "")]
    /\ UNCHANGED <<authorizationServer, clientId, codeVerifier, state, accessToken,
                   storedClientId, storedPkce, authRequests, tokenRequests>>
    /\ UNCHANGED <<sseVars, issuerPath, registration, messageOrigin, tokenVars,
                   validatorVars, promptVars>>

ResourceReply ==
    \E c \in Calls : \E doc \in ResourceDocs \cup {NoDoc} :
        discoverProtectedResourceMetadata(c, doc)

\* preparePKCE(): a fresh verifier and a fresh state, kept in the object and
\* in sessionStorage.  A value is named by the call that generated it.
preparePKCE(c) ==
    /\ codeVerifier' = c
    /\ state' = c
    /\ storedPkce' = c

\* registerClient() up to its first await, for the metadata just discovered:
\* a stored client id is reused; without a registration endpoint the id is
\* asked from the user and stored; otherwise a registration request is sent.
RegistersDynamically(doc) == storedClientId = "null" /\ doc.registration

\* discoverAuthorizationServer() after the fetch of candidate i.  An ok
\* response is stored before it is validated; a document without S256 throws
\* into the catch of the loop.  A valid document returns, and authorize()
\* runs registerClient(), preparePKCE() and requestAuthorization() up to the
\* next await.
discoverAuthorizationServer(c, doc) ==
    /\ frames[c].pc = "server"
    /\ authorizationServer' = IF doc = NoDoc THEN authorizationServer ELSE doc
    /\ IF doc = NoDoc \/ LacksS256(doc)
       THEN /\ frames' = [frames EXCEPT ![c] =
                  NextCandidate([frames[c] EXCEPT !.rejected = @ \/ doc # NoDoc],
                                "AuthDiscoveryError")]
            /\ UNCHANGED <<clientId, storedClientId, codeVerifier, state, storedPkce>>
       ELSE IF RegistersDynamically(doc)
       THEN /\ frames' = [frames EXCEPT ![c] = Past(@, "register")]
            /\ UNCHANGED <<clientId, storedClientId, codeVerifier, state, storedPkce>>
       ELSE /\ clientId' = IF storedClientId # "null" THEN storedClientId ELSE "manual"
            /\ storedClientId' = clientId'
            /\ preparePKCE(c)
            /\ frames' = [frames EXCEPT ![c] = Past(@, "challenge")]
    /\ UNCHANGED <<resourceMetadata, accessToken, authRequests, tokenRequests>>
    /\ UNCHANGED <<sseVars, issuerPath, registration, messageOrigin, tokenVars,
                   validatorVars, promptVars>>

ServerReply ==
    \E c \in Calls : \E doc \in ServerDocs \cup {NoDoc} :
        discoverAuthorizationServer(c, doc)

\* A registerClient() that persists the public default whatever the
\* registration returned.
registerClientStoresDefault(c, ok) ==
    /\ frames[c].pc = "register"
    /\ clientId' = IF ok THEN "registered" ELSE "mcpeek-public-client"
    /\ storedClientId' = "mcpeek-public-client"
    /\ preparePKCE(c)
    /\ frames' = [frames EXCEPT ![c].pc = "challenge"]
    /\ UNCHANGED <<resourceMetadata, authorizationServer, accessToken,
                   authRequests, tokenRequests>>
    /\ UNCHANGED <<sseVars, issuerPath, registration, messageOrigin, tokenVars,
                   validatorVars, promptVars>>

\* registerClient() after its registration request: the id returned, or the
\* public default when the request failed; then preparePKCE() and
\* requestAuthorization() up to its await of the challenge.
registerClient(c, ok) ==
    /\ frames[c].pc = "register"
    /\ clientId' = IF ok THEN "registered" ELSE "mcpeek-public-client"
    /\ storedClientId' = clientId'
    /\ preparePKCE(c)
    /\ frames' = [frames EXCEPT ![c].pc = "challenge"]
    /\ UNCHANGED <<resourceMetadata, authorizationServer, accessToken,
                   authRequests, tokenRequests>>
    /\ UNCHANGED <<sseVars, issuerPath, registration, messageOrigin, tokenVars,
                   validatorVars, promptVars>>

RegisterReply == \E c \in Calls : \E ok \in BOOLEAN : registerClient(c, ok)

\* requestAuthorization() after the challenge is computed: the authorization
\* URL is built from this.authorizationServer and this.state as they are now,
\* and openAuthorizationPopup() opens it, unless the browser blocks the popup.
requestAuthorization(c, opened) ==
    /\ frames[c].pc = "challenge"
    /\ IF opened
       THEN /\ authRequests' = authRequests \cup
                  {[call |-> c, meta |-> authorizationServer, state |-> state]}
            /\ frames' = [frames EXCEPT ![c].pc = "popup"]
       ELSE /\ frames' = [frames EXCEPT ![c] = Fail(@, "PopupBlocked")]
            /\ UNCHANGED authRequests
    /\ UNCHANGED <<resourceMetadata, authorizationServer, clientId, codeVerifier,
                   state, accessToken, storedClientId, storedPkce, tokenRequests>>
    /\ UNCHANGED <<sseVars, issuerPath, registration, messageOrigin, tokenVars,
                   validatorVars, promptVars>>

ChallengeReady == \E c \in Calls : \E opened \in BOOLEAN : requestAuthorization(c, opened)

\* The calls whose message listener is registered.
Listeners == {c \in Calls : frames[c].pc \in {"popup", "closed"}}

\* The code exchange exchangeCodeForToken() sends for call c, with
\* this.codeVerifier and the token endpoint of this.authorizationServer as
\* they are now.
TokenRequest(c, code) ==
    [call |-> c, meta |-> authorizationServer, verifier |-> codeVerifier,
     code |-> code]

\* A messageHandler without the origin check.
messageHandlerAnyOrigin(origin, code, st, error) ==
    /\ Listeners # {}
    /\ messageOrigin' = origin
    /\ frames' = [c \in Calls |->
          IF c \notin Listeners THEN frames[c]
          ELSE IF error THEN Fail(frames[c], "ConsentDenied")
          ELSE IF st # state THEN Fail(frames[c], "StateMismatch")
          ELSE [frames[c] EXCEPT !.pc = "exchange"]]
    /\ tokenRequests' = IF ~error /\ st = state
                        THEN tokenRequests \cup {TokenRequest(c, code) : c \in Listeners}
                        ELSE tokenRequests
    /\ UNCHANGED <<resourceMetadata, authorizationServer, clientId, codeVerifier,
                   state, accessToken, storedClientId, storedPkce, authRequests>>
    /\ UNCHANGED <<sseVars, issuerPath, registration, tokenVars, validatorVars,
                   promptVars>>

\* messageHandler of openAuthorizationPopup(), for a message event the
\* window gets: every registered listener gets it.  A message of another
\* origin than the page's returns at once.  Otherwise the listener is
\* removed and the popup closed; an error rejects; a state other than
\* this.state rejects; otherwise the code resolves the popup and authorize()
\* sends the code exchange.
messageHandler(origin, code, st, error) ==
    /\ Listeners # {}
    /\ messageOrigin' = origin
    /\ IF origin # PageOrigin
       THEN UNCHANGED <<frames, tokenRequests>>
       ELSE /\ frames' = [c \in Calls |->
                  IF c \notin Listeners THEN frames[c]
                  ELSE IF error THEN Fail(frames[c], "ConsentDenied")
                  ELSE IF st # state THEN Fail(frames[c], "StateMismatch")
                  ELSE [frames[c] EXCEPT !.pc = "exchange"]]
            /\ tokenRequests' =
                  IF ~error /\ st = state
                  THEN tokenRequests \cup {TokenRequest(c, code) : c \in Listeners}
                  ELSE tokenRequests
    /\ UNCHANGED <<resourceMetadata, authorizationServer, clientId, codeVerifier,
                   state, accessToken, storedClientId, storedPkce, authRequests>>
    /\ UNCHANGED <<sseVars, issuerPath, registration, tokenVars, validatorVars,
                   promptVars>>

\* The callback page posts the result of a consent request that was opened:
\* the code with the state of that request, or an error.
ConsentMessage ==
    \E q \in authRequests : \E error \in BOOLEAN :
        messageHandler(PageOrigin, q.call, q.state, error)

\* A page of the same origin posts a code with a state of its own.
ForgedMessage == messageHandler(PageOrigin, 0, -1, FALSE)

\* A page of another origin posts a message to the window: the result of a
\* consent request, an error, or a code with a state of its own.
ForeignMessage ==
    \/ \E q \in authRequests : \E error \in BOOLEAN :
           messageHandler(ForeignOrigin, q.call, q.state, error)
    \/ messageHandler(ForeignOrigin, 0, -1, FALSE)

\* The user closes the consent window.  The calls that wait for a consent
\* opened it under one window name, so it is the popup of each of them; the
\* listeners stay until checkClosed runs.
UserClosesPopup ==
    /\ \E c \in Calls : frames[c].pc = "popup"
    /\ frames' = [c \in Calls |->
          IF frames[c].pc = "popup" THEN [frames[c] EXCEPT !.pc = "closed"]
          ELSE frames[c]]
    /\ UNCHANGED <<resourceMetadata, authorizationServer, clientId, codeVerifier,
                   state, accessToken, storedClientId, storedPkce, authRequests,
                   tokenRequests>>
    /\ UNCHANGED <<sseVars, issuerPath, registration, messageOrigin, tokenVars,
                   validatorVars, promptVars>>

\* A checkClosed that clears its interval and leaves the promise pending.
checkClosedKeepsPending(c) ==
    /\ frames[c].pc = "closed"
    /\ frames' = [frames EXCEPT ![c].pc = "abandoned"]
    /\ UNCHANGED <<resourceMetadata, authorizationServer, clientId, codeVerifier,
                   state, accessToken, storedClientId, storedPkce, authRequests,
                   tokenRequests>>
    /\ UNCHANGED <<sseVars, issuerPath, registration, messageOrigin, tokenVars,
                   validatorVars, promptVars>>

\* checkClosed of openAuthorizationPopup(), run by its interval once the
\* popup is closed: the listener is removed and the promise rejects.
checkClosed(c) ==
    /\ frames[c].pc = "closed"
    /\ frames' = [frames EXCEPT ![c] = Fail(@, "ConsentCancelled")]
    /\ UNCHANGED <<resourceMetadata, authorizationServer, clientId, codeVerifier,
                   state, accessToken, storedClientId, storedPkce, authRequests,
                   tokenRequests>>
    /\ UNCHANGED <<sseVars, issuerPath, registration, messageOrigin, tokenVars,
                   validatorVars, promptVars>>

PopupClosed == \E c \in Calls : checkClosed(c)

\* exchangeCodeForToken() after its token request: a response that is not ok
\* throws; an ok one stores the tokens and removes the PKCE values from
\* sessionStorage.  The token endpoint answers here with a refresh token
\* and a lifetime; TokenSpec varies its answer.
exchangeCodeForToken(c, ok) ==
    /\ frames[c].pc = "exchange"
    /\ IF ok
       THEN /\ TokensFromExchange(c, [refresh_token |-> "rt", expires_in |-> 90,
                                      scope |-> TRUE], DefaultScopes)
            /\ frames' = [frames EXCEPT ![c].pc = "done"]
       ELSE /\ frames' = [frames EXCEPT ![c] = Fail(@, "TokenExchangeError")]
            /\ UNCHANGED <<accessToken, storedPkce, tokenFields>>
    /\ UNCHANGED <<resourceMetadata, authorizationServer, clientId, codeVerifier,
                   state, storedClientId, authRequests, tokenRequests>>
    /\ UNCHANGED <<sseVars, issuerPath, registration, messageOrigin, tokenEnv,
                   validatorVars, promptVars>>

TokenReply == \E c \in Calls : \E ok \in BOOLEAN : exchangeCodeForToken(c, ok)

Authorize == \E c \in Calls : authorize(c)

OAuthNext ==
    \/ Authorize
    \/ ResourceReply
    \/ ServerReply
    \/ RegisterReply
    \/ ChallengeReady
    \/ ConsentMessage
    \/ ForgedMessage
    \/ ForeignMessage
    \/ UserClosesPopup
    \/ PopupClosed
    \/ TokenReply

(***************************************************************************)
(* MCPOAuthClient: tokens in use, refresh and step-up                      *)
(***************************************************************************)

\* Number of calls the page makes: authorize(), getAccessToken(), a reload,
\* a preparePKCE() of the other client.
MaxCalls == 3

\* Number of handleStepUpAuthorization() calls on one object.
MaxStepUps == 4

\* Number of steps of the clock.
MaxTicks == 2

\* this.maxStepUpRetries
maxStepUpRetries == 3

\* The verifier and state pair that the client of the other server stores.
OtherPkce == -2

Await(p) == [inflight EXCEPT ![p] = @ + 1]

Resume(p) == [inflight EXCEPT ![p] = @ - 1]

Move(p, q) == [inflight EXCEPT ![p] = @ - 1, ![q] = @ + 1]

\* A request of this client on the wire, or a consent URL opened: its kind
\* and its resource parameter (none in a discovery fetch).
Sent(kind, resource) == [kind |-> kind, resource |-> resource]

\* What no step of this part touches.
Elsewhere == UNCHANGED <<sseVars, frames, authRequests, tokenRequests, issuerPath,
                         registration, messageOrigin, mcpServerUrl, validatorVars,
                         promptVars>>

\* requiredScopes || scopes_supported.join(' ') || 'mcp:tools:read'
scopesToRequest(requiredScopes) ==
    IF requiredScopes # <<>> THEN requiredScopes ELSE DefaultScopes

\* [...new Set(names)]: each name once, at the place of its first occurrence.
RECURSIVE Unique(_)
Unique(names) ==
    IF names = <<>> THEN <<>>
    ELSE LET front == Unique(SubSeq(names, 1, Len(names) - 1))
             last == names[Len(names)]
         IN  IF \E k \in 1..Len(front) : front[k] = last
             THEN front ELSE Append(front, last)

\* combinedScopes of handleStepUpAuthorization(): the names of this.scopes,
\* none when it is null or undefined, then the names required, each once.
combinedScopes(requiredScopes) == Unique(scopes \o requiredScopes)

\* The scopes a step-up challenge names.
Challenges == {<<"read">>, <<"read", "write">>}

\* authorize(requiredScopes) up to its first await: the fetch of the
\* protected resource metadata is sent.
AuthorizeStarts(requiredScopes) ==
    /\ inflight' = Await("discovery")
    /\ requestLog' = requestLog \cup {Sent("discovery", <<>>)}
    /\ requestedScopes' = scopesToRequest(requiredScopes)

\* The page calls authorize().
authorizeCall ==
    /\ calls < MaxCalls
    /\ calls' = calls + 1
    /\ AuthorizeStarts(<<>>)
    /\ thrown' = ""
    /\ UNCHANGED <<resourceMetadata, authorizationServer, clientId, codeVerifier,
                   state, accessToken, storedClientId, storedPkce, tokenFields,
                   stepUpRetryCount, stepUpCalls, now>>
    /\ Elsewhere

\* A handleStepUpAuthorization() that lets the counter pass the limit by one.
handleStepUpPastLimit(requiredScopes) ==
    /\ stepUpCalls < MaxStepUps
    /\ stepUpCalls' = stepUpCalls + 1
    /\ IF stepUpRetryCount > maxStepUpRetries
       THEN /\ thrown' = "StepUpExceeded"
            /\ UNCHANGED <<stepUpRetryCount, inflight, requestLog, requestedScopes>>
       ELSE /\ stepUpRetryCount' = stepUpRetryCount + 1
            /\ AuthorizeStarts(combinedScopes(requiredScopes))
            /\ thrown' = ""
    /\ UNCHANGED <<resourceMetadata, authorizationServer, clientId, codeVerifier,
                   state, accessToken, storedClientId, storedPkce, tokenFields, now,
                   calls>>
    /\ Elsewhere

\* handleStepUpAuthorization(requiredScopes): the retry limit, the counter,
\* then authorize(combinedScopes) up to its first await.
handleStepUpAuthorization(requiredScopes) ==
    /\ stepUpCalls < MaxStepUps
    /\ stepUpCalls' = stepUpCalls + 1
    /\ IF stepUpRetryCount >= maxStepUpRetries
       THEN /\ thrown' = "StepUpExceeded"
            /\ UNCHANGED <<stepUpRetryCount, inflight, requestLog, requestedScopes>>
       ELSE /\ stepUpRetryCount' = stepUpRetryCount + 1
            /\ AuthorizeStarts(combinedScopes(requiredScopes))
            /\ thrown' = ""
    /\ UNCHANGED <<resourceMetadata, authorizationServer, clientId, codeVerifier,
                   state, accessToken, storedClientId, storedPkce, tokenFields, now,
                   calls>>
    /\ Elsewhere

\* authorize() from the end of discovery to the consent popup, for a server
\* without a registration endpoint: the metadata is kept, registerClient()
\* takes the stored client id or asks for one and stores it, preparePKCE()
\* runs and requestAuthorization() opens the authorization URL.  A discovery
\* that found nothing throws.  OAuthSpec follows these steps one by one.
authorizeDiscovered(ok) ==
    /\ inflight["discovery"] > 0
    /\ IF ok
       THEN /\ resourceMetadata' = [kind |-> "resource", servers |-> 1]
            /\ authorizationServer' =
                  [kind |-> "server", s256 |-> TRUE, registration |-> registration]
            /\ clientId' = IF storedClientId # "null" THEN storedClientId ELSE "manual"
            /\ storedClientId' = clientId'
            /\ preparePKCE(1)
            /\ requestLog' = requestLog \cup {Sent("authorize", getCanonicalResourceUri)}
            /\ inflight' = Move("discovery", "consent")
            /\ thrown' = ""
       ELSE /\ inflight' = Resume("discovery")
            /\ thrown' = "AuthDiscoveryError"
            /\ UNCHANGED <<resourceMetadata, authorizationServer, clientId,
                           storedClientId, codeVerifier, state, storedPkce, requestLog>>
    /\ UNCHANGED <<accessToken, tokenFields, stepUpRetryCount, stepUpCalls,
                   requestedScopes, now, calls>>
    /\ Elsewhere

Discovered == \E ok \in BOOLEAN : authorizeDiscovered(ok)

\* authorize() when the popup resolves with a code: exchangeCodeForToken()
\* sends the code exchange.  A popup that rejects throws.
authorizeConsented(ok) ==
    /\ inflight["consent"] > 0
    /\ IF ok
       THEN /\ requestLog' = requestLog \cup {Sent("token", getCanonicalResourceUri)}
            /\ inflight' = Move("consent", "exchange")
            /\ thrown' = ""
       ELSE /\ inflight' = Resume("consent")
            /\ thrown' = "ConsentDenied"
            /\ UNCHANGED requestLog
    /\ UNCHANGED <<resourceMetadata, authorizationServer, clientId, codeVerifier,
                   state, accessToken, storedClientId, storedPkce, tokenFields,
                   stepUpRetryCount, stepUpCalls, requestedScopes, now, calls>>
    /\ Elsewhere

Consented == \E ok \in BOOLEAN : authorizeConsented(ok)

\* exchangeCodeForToken() after its token request, for any answer of the
\* token endpoint.
authorizeExchanged(resp) ==
    /\ inflight["exchange"] > 0
    /\ inflight' = Resume("exchange")
    /\ IF resp \in TokenResponses
       THEN /\ TokensFromExchange(1, resp, requestedScopes)
            /\ thrown' = ""
       ELSE /\ thrown' = "TokenExchangeError"
            /\ UNCHANGED <<accessToken, storedPkce, tokenFields>>
    /\ UNCHANGED <<resourceMetadata, authorizationServer, clientId, codeVerifier,
                   state, storedClientId, requestLog, stepUpRetryCount, stepUpCalls,
                   requestedScopes,
                   now, calls>>
    /\ Elsewhere

Exchanged == \E resp \in TokenResponses \cup {ErrorResponse("invalid_grant")} :
                 authorizeExchanged(resp)

\* if (!this.accessToken) this.loadTokens(): the fields getAccessToken()
\* goes on with.
HeldAccessToken == IF accessToken = 0 THEN LoadedAccessToken ELSE accessToken

HeldExpiresAt == IF accessToken = 0 THEN LoadedExpiresAt ELSE tokenExpiresAt

HeldRefreshToken == IF accessToken = 0 THEN LoadedRefreshToken ELSE refreshToken

HeldScopes == IF accessToken = 0 THEN LoadedScopes ELSE scopes

\* this.tokenExpiresAt && Date.now() >= this.tokenExpiresAt - 60000
AboutToExpire == HeldExpiresAt # 0 /\ now >= HeldExpiresAt - RefreshMargin

\* getAccessToken() up to its await: the tokens are loaded from storage when
\* the object has no access token; without one it throws; a token about to
\* expire starts refreshAccessToken(), which throws without a refresh token,
\* reads the token endpoint of this.authorizationServer and sends the refresh
\* request; otherwise the token is returned.
getAccessToken ==
    /\ calls < MaxCalls
    /\ calls' = calls + 1
    /\ accessToken' = HeldAccessToken
    /\ tokenExpiresAt' = HeldExpiresAt
    /\ refreshToken' = HeldRefreshToken
    /\ scopes' = HeldScopes
    /\ IF HeldAccessToken = 0
       THEN /\ thrown' = "NoAccessToken"
            /\ UNCHANGED <<inflight, requestLog>>
       ELSE IF ~AboutToExpire
       THEN /\ thrown' = ""
            /\ UNCHANGED <<inflight, requestLog>>
       ELSE IF HeldRefreshToken = "null"
       THEN /\ thrown' = "NoRefreshToken"
            /\ UNCHANGED <<inflight, requestLog>>
       ELSE IF authorizationServer = Null
       THEN /\ thrown' = "TypeError"
            /\ UNCHANGED <<inflight, requestLog>>
       ELSE /\ thrown' = ""
            /\ inflight' = Await("refresh")
            /\ requestLog' = requestLog \cup {Sent("refresh", getCanonicalResourceUri)}
    /\ UNCHANGED <<resourceMetadata, authorizationServer, clientId, codeVerifier,
                   state, storedClientId, storedPkce, sessionTokens, localRefresh,
                   grantedScopes, stepUpRetryCount, stepUpCalls, requestedScopes,
                   now>>
    /\ Elsewhere

\* A refreshAccessToken() that clears the tokens on every error.
refreshAccessTokenClearsOnError(resp) ==
    /\ inflight["refresh"] > 0
    /\ inflight' = Resume("refresh")
    /\ IF resp = ErrorResponse("invalid_grant")
       THEN /\ clearTokens
            /\ thrown' = "RefreshInvalid"
       ELSE IF resp \notin RefreshResponses
       THEN /\ clearTokens
            /\ thrown' = "TokenRefreshError"
       ELSE /\ accessToken' = 2
            /\ refreshToken' = IF resp.refresh_token # "null"
                               THEN resp.refresh_token ELSE refreshToken
            /\ scopes' = ScopeOf(resp, grantedScopes)
            /\ grantedScopes' = grantedScopes
            /\ tokenExpiresAt' = ExpiresAtAfter(resp)
            /\ storeTokens(accessToken', refreshToken', tokenExpiresAt', scopes')
            /\ thrown' = ""
    /\ UNCHANGED <<resourceMetadata, authorizationServer, clientId, codeVerifier,
                   state, storedClientId, storedPkce, requestLog, stepUpRetryCount,
                   stepUpCalls, requestedScopes, now, calls>>
    /\ Elsewhere

\* refreshAccessToken() after its request: invalid_grant clears the tokens
\* and throws, another error throws, an ok response updates the fields and
\* stores them.
refreshAccessToken(resp) ==
    /\ inflight["refresh"] > 0
    /\ inflight' = Resume("refresh")
    /\ IF resp = ErrorResponse("invalid_grant")
       THEN /\ clearTokens
            /\ thrown' = "RefreshInvalid"
       ELSE IF resp \notin RefreshResponses
       THEN /\ thrown' = "TokenRefreshError"
            /\ UNCHANGED <<accessToken, tokenFields>>
       ELSE /\ accessToken' = 2
            /\ refreshToken' = IF resp.refresh_token # "null"
                               THEN resp.refresh_token ELSE refreshToken
            /\ scopes' = ScopeOf(resp, grantedScopes)
            /\ grantedScopes' = grantedScopes
            /\ tokenExpiresAt' = ExpiresAtAfter(resp)
            /\ storeTokens(accessToken', refreshToken', tokenExpiresAt', scopes')
            /\ thrown' = ""
    /\ UNCHANGED <<resourceMetadata, authorizationServer, clientId, codeVerifier,
                   state, storedClientId, storedPkce, requestLog, stepUpRetryCount,
                   stepUpCalls, requestedScopes, now, calls>>
    /\ Elsewhere

Refreshed ==
    \E resp \in RefreshResponses \cup
                {ErrorResponse("invalid_grant"), ErrorResponse("server_error")} :
        refreshAccessToken(resp)

\* Date.now() advances.
Tick ==
    /\ now < MaxTicks * TickMs
    /\ now' = now + TickMs
    /\ thrown' = ""
    /\ UNCHANGED <<resourceMetadata, authorizationServer, clientId, codeVerifier,
                   state, accessToken, storedClientId, storedPkce, tokenFields,
                   stepUpRetryCount, stepUpCalls, requestedScopes, requestLog,
                   inflight, calls>>
    /\ Elsewhere

\* The page is loaded again and constructs its client anew: in the same tab,
\* which keeps sessionStorage, or in a new one, which starts with an empty
\* sessionStorage.  localStorage stays, what the old page awaited is gone.
constructor(sameTab) ==
    /\ calls < MaxCalls
    /\ calls' = calls + 1
    /\ resourceMetadata' = Null
    /\ authorizationServer' = Null
    /\ clientId' = "null"
    /\ accessToken' = 0
    /\ refreshToken' = "null"
    /\ tokenExpiresAt' = 0
    /\ scopes' = <<>>
    /\ requestedScopes' = <<>>
    /\ codeVerifier' = 0
    /\ state' = 0
    /\ stepUpRetryCount' = 0
    /\ stepUpCalls' = 0
    /\ inflight' = [p \in DOMAIN inflight |-> 0]
    /\ thrown' = ""
    /\ IF sameTab
       THEN UNCHANGED <<sessionTokens, storedPkce>>
       ELSE /\ sessionTokens' = [s \in Servers |-> NoEntry]
            /\ storedPkce' = 0
    /\ UNCHANGED <<storedClientId, localRefresh, grantedScopes, requestLog, now>>
    /\ Elsewhere

Reload == \E sameTab \in BOOLEAN : constructor(sameTab)

\* preparePKCE() of the client of the other server: the same two
\* sessionStorage keys.
otherPreparePKCE ==
    /\ calls < MaxCalls
    /\ calls' = calls + 1
    /\ storedPkce # OtherPkce
    /\ storedPkce' = OtherPkce
    /\ thrown' = ""
    /\ UNCHANGED <<resourceMetadata, authorizationServer, clientId, codeVerifier,
                   state, accessToken, storedClientId, tokenFields,
                   stepUpRetryCount, stepUpCalls, requestedScopes, requestLog,
                   inflight, now>>
    /\ Elsewhere

\* The end of exchangeCodeForToken() of the client of the other server:
\* storeTokens() under its own keys, then the two PKCE keys removed.
otherExchangeCodeForToken ==
    /\ storedPkce = OtherPkce
    /\ sessionTokens' = [sessionTokens EXCEPT ![Other] =
          [access_token |-> 1, expires_at |-> now + 90 * 1000]]
    /\ localRefresh' = [localRefresh EXCEPT ![Other] =
          [refresh_token |-> "rt", scopes |-> DefaultScopes]]
    /\ storedPkce' = 0
    /\ thrown' = ""
    /\ UNCHANGED <<resourceMetadata, authorizationServer, clientId, codeVerifier,
                   state, accessToken, storedClientId, refreshToken, tokenExpiresAt,
                   scopes, grantedScopes, stepUpRetryCount, stepUpCalls,
                   requestedScopes, requestLog, inflight, now,
                   calls>>
    /\ Elsewhere

TokenNext ==
    \/ authorizeCall
    \/ Discovered
    \/ Consented
    \/ Exchanged
    \/ getAccessToken
    \/ Refreshed
    \/ Tick
    \/ Reload
    \/ otherPreparePKCE
    \/ otherExchangeCodeForToken

(***************************************************************************)
(* MCPProtocolValidator: JSON values and the validations                   *)
(***************************************************************************)

\* JSON values as JavaScript sees them, by type.  Absent is undefined: the
\* value of a member that is not in the object.
Absent == [t |-> "undefined"]

JsNull == [t |-> "null"]

Num(v) == [t |-> "number", n |-> v]

Str(v) == [t |-> "string", s |-> v]

Bool(v) == [t |-> "boolean", b |-> v]

EmptyObject == [t |-> "object"]

EmptyArray == [t |-> "array"]

\* typeof v
TypeOf(v) == IF v.t \in {"object", "array", "null"} THEN "object" ELSE v.t

\* Array.isArray(v)
IsArray(v) == v.t = "array"

\* v is truthy: !v is false.
Truthy(v) ==
    CASE v.t \in {"undefined", "null"} -> FALSE
      [] v.t = "number" -> v.n # 0
      [] v.t = "string" -> v.s # ""
      [] v.t = "boolean" -> v.b
      [] OTHER -> TRUE

\* 'name' in object, for the value of the member.
IsIn(member) == member.t # "undefined"

\* The values a server puts in capabilities.tools, .resources and .prompts.
CapabilityValues == {Absent, EmptyObject, EmptyArray, Str("yes")}

Capabilities ==
    {[t |-> "object", tools |-> a, resources |-> b, prompts |-> c] :
        a \in CapabilityValues, b \in CapabilityValues, c \in CapabilityValues}

ProtocolVersions == {Absent, Str("2024-11-05"), Str("2025-03-26")}

ServerInfos == {Absent, [t |-> "object", name |-> Str("server"), version |-> Absent]}

\* The results of an initialize response.
Results ==
    {[t |-> "object", protocolVersion |-> v, capabilities |-> c, serverInfo |-> i] :
        v \in ProtocolVersions, c \in Capabilities \cup {Absent, Str("none")},
        i \in ServerInfos}

\* The values of the error member of a message.
Errors ==
    {[t |-> "object", code |-> c, message |-> m] :
        c \in {Absent, Num(-32600), Str("E")}, m \in {Absent, Str("failed")}}

\* The messages handed to the validator.
Messages ==
    {[t |-> "object", jsonrpc |-> j, id |-> i, result |-> r, error |-> e] :
        j \in {Absent, Str("2.0"), Str("1.0")},
        i \in {Absent, JsNull, Num(0), Num(1), Str("a"), Bool(TRUE)},
        r \in Results \cup {Absent, JsNull},
        e \in Errors \cup {Absent, JsNull, Str("failed")}}

\* this.protocolVersion
protocolVersion == Str("2024-11-05")

\* validateError(error)
validateError(error) ==
    IF TypeOf(error) # "object" \/ error.t = "null"
    THEN [errors |-> <<"error must be an object">>, warnings |-> <<>>]
    ELSE [errors |->
             (IF ~IsIn(error.code) THEN <<"error.code is required">>
              ELSE IF TypeOf(error.code) # "number"
              THEN <<"error.code must be a number">> ELSE <<>>)
             \o (IF ~IsIn(error.message) THEN <<"error.message is required">>
                 ELSE IF TypeOf(error.message) # "string"
                 THEN <<"error.message must be a string">> ELSE <<>>),
          warnings |-> <<>>]

\* The check of result and error in validateJSONRPC(), for a message with an
\* id that is not null.
ResultOrError(message) ==
    LET hasResult == IsIn(message.result)
        hasError == IsIn(message.error)
    IN  (IF ~hasResult /\ ~hasError
         THEN <<"response must have either result or error">> ELSE <<>>)
        \o (IF hasResult /\ hasError
            THEN <<"response cannot have both result and error">> ELSE <<>>)

\* A validateJSONRPC() that looks only for a response without result and
\* error.
validateJSONRPCEitherOnly(message) ==
    [errors |->
        (IF ~Truthy(message.jsonrpc) THEN <<"Missing jsonrpc">>
         ELSE IF message.jsonrpc # Str("2.0") THEN <<"Invalid jsonrpc version">>
         ELSE <<>>)
        \o (IF IsIn(message.id) /\ TypeOf(message.id) \notin {"string", "number"}
                  /\ message.id.t # "null"
            THEN <<"id must be a string, number, or null">> ELSE <<>>)
        \o (IF IsIn(message.id) /\ message.id.t # "null"
                  /\ ~IsIn(message.result) /\ ~IsIn(message.error)
            THEN <<"response must have either result or error">> ELSE <<>>)
        \o (IF IsIn(message.error) THEN validateError(message.error).errors ELSE <<>>),
     warnings |-> <<>>]

\* validateJSONRPC(message): the version, the type of the id, result and
\* error of a response, the format of the error.
validateJSONRPC(message) ==
    [errors |->
        (IF ~Truthy(message.jsonrpc) THEN <<"Missing jsonrpc">>
         ELSE IF message.jsonrpc # Str("2.0") THEN <<"Invalid jsonrpc version">>
         ELSE <<>>)
        \o (IF IsIn(message.id) /\ TypeOf(message.id) \notin {"string", "number"}
                  /\ message.id.t # "null"
            THEN <<"id must be a string, number, or null">> ELSE <<>>)
        \o (IF IsIn(message.id) /\ message.id.t # "null"
            THEN ResultOrError(message) ELSE <<>>)
        \o (IF IsIn(message.error) THEN validateError(message.error).errors ELSE <<>>),
     warnings |-> <<>>]

\* The check of one capability in validateCapabilities(): an array is a
\* critical error, with a line on the fix for tools; another value that is
\* not an object is an error.
CapabilityErrors(name, value) ==
    IF ~IsIn(value) THEN <<>>
    ELSE IF IsArray(value)
    THEN <<"capabilities." \o name \o " must be an object {}, not an array []">>
         \o (IF name = "tools" THEN <<"Fix: change tools [] to {}">> ELSE <<>>)
    ELSE IF TypeOf(value) # "object"
    THEN <<"capabilities." \o name \o " must be an object">>
    ELSE <<>>

\* A validateCapabilities() that checks tools only.
validateToolsCapability(capabilities) ==
    IF TypeOf(capabilities) # "object" \/ capabilities.t = "null"
    THEN [errors |-> <<"capabilities must be an object">>, warnings |-> <<>>]
    ELSE [errors |-> CapabilityErrors("tools", capabilities.tools),
          warnings |-> <<>>]

\* validateCapabilities(capabilities)
validateCapabilities(capabilities) ==
    IF TypeOf(capabilities) # "object" \/ capabilities.t = "null"
    THEN [errors |-> <<"capabilities must be an object">>, warnings |-> <<>>]
    ELSE [errors |-> CapabilityErrors("tools", capabilities.tools)
                     \o CapabilityErrors("resources", capabilities.resources)
                     \o CapabilityErrors("prompts", capabilities.prompts),
          warnings |-> <<>>]

\* validateInitializeResponse(response)
validateInitializeResponse(response) ==
    LET rpcValidation == validateJSONRPC(response)
        result == response.result
        capValidation == validateCapabilities(result.capabilities)
        errors ==
            rpcValidation.errors
            \o (IF ~Truthy(result.protocolVersion)
                THEN <<"Missing protocolVersion">> ELSE <<>>)
            \o (IF ~Truthy(result.capabilities)
                THEN <<"Missing capabilities">> ELSE capValidation.errors)
        warnings ==
            rpcValidation.warnings
            \o (IF Truthy(result.protocolVersion)
                      /\ result.protocolVersion # protocolVersion
                THEN <<"Protocol version mismatch">> ELSE <<>>)
            \o (IF Truthy(result.capabilities) THEN capValidation.warnings ELSE <<>>)
            \o (IF ~Truthy(result.serverInfo) THEN <<"Missing serverInfo">>
                ELSE (IF ~Truthy(result.serverInfo.name)
                      THEN <<"Missing serverInfo.name">> ELSE <<>>)
                     \o (IF ~Truthy(result.serverInfo.version)
                         THEN <<"Missing serverInfo.version">> ELSE <<>>))
    IN  IF ~Truthy(response.result)
        THEN [valid |-> FALSE,
              errors |-> rpcValidation.errors \o <<"Missing result">>,
              warnings |-> rpcValidation.warnings]
        ELSE [valid |-> errors = <<>>, errors |-> errors, warnings |-> warnings]

\* Number of entries of a tools array, and of properties of an input schema.
MaxTools == 2

MaxProperties == 1

\* The sequences of members of S of length n at most.
SeqsUpTo(S, n) == UNION {[1..k -> S] : k \in 0..n}

\* A JSON array with its items, and a JSON object taken as a map with its
\* entries (the values; the names play no part).
ArrayOf(items) == [t |-> "array", items |-> items]

ObjectOf(entries) == [t |-> "object", entries |-> entries]

\* The definitions of a property in an input schema.
PropertyDefinitions ==
    {JsNull, Str("text"), [t |-> "object", type |-> Absent],
     [t |-> "object", type |-> Str("string")]}

\* The values of properties in an input schema.
PropertiesValues ==
    {Absent, JsNull, Str("none"), ArrayOf(<<>>)}
    \cup {ObjectOf(e) : e \in SeqsUpTo(PropertyDefinitions, MaxProperties)}

\* The values of inputSchema in a tool.
Schemas ==
    {Absent, Str("schema")}
    \cup {[t |-> "object", type |-> y, properties |-> p, required |-> r] :
            y \in {Str("object"), Str("string")}, p \in PropertiesValues,
            r \in {Absent, Str("name")}}

\* The entries of a tools array.
Tools ==
    {JsNull, Num(1)}
    \cup {[t |-> "object", name |-> n, description |-> d, inputSchema |-> i] :
            n \in {Absent, Str("tool")}, d \in {Absent, Str("does")}, i \in Schemas}

\* The results of a tools/list response: an object with its tools member and
\* none of the members of an initialize result.
ToolsResults ==
    {[t |-> "object", tools |-> a, protocolVersion |-> Absent,
      capabilities |-> Absent, serverInfo |-> Absent] :
        a \in {Absent, Str("none")} \cup {ArrayOf(i) : i \in SeqsUpTo(Tools, MaxTools)}}

\* The tools/list responses handed to the validator.
ToolsListResponses ==
    {[t |-> "object", jsonrpc |-> Str("2.0"), id |-> Num(1), result |-> r,
      error |-> Absent] : r \in ToolsResults \cup {Absent}}

\* A call that threw instead of returning: the TypeError of a property read
\* on null, or of Object.entries(null).
Thrown == [thrown |-> "TypeError"]

IsThrown(validated) == "thrown" \in DOMAIN validated

\* errors.push(...) and warnings.push(...) with what a callee returned; the
\* exception of a callee that threw goes up.
Push(validated, more) ==
    IF IsThrown(validated) THEN Thrown
    ELSE IF IsThrown(more) THEN Thrown
    ELSE [errors |-> validated.errors \o more.errors,
          warnings |-> validated.warnings \o more.warnings]

Nothing == [errors |-> <<>>, warnings |-> <<>>]

OneError(text) == [errors |-> <<text>>, warnings |-> <<>>]

OneWarning(text) == [errors |-> <<>>, warnings |-> <<text>>]

\* The body of the loop over Object.entries(schema.properties) for one
\* property: typeof propDef, then propDef.type, which throws on null.
PropertyValidation(propDef) ==
    IF propDef.t = "null" THEN Thrown
    ELSE Push(IF TypeOf(propDef) # "object" THEN OneError("property must be an object")
              ELSE Nothing,
              IF TypeOf(propDef) # "object" \/ ~Truthy(propDef.type)
              THEN OneWarning("property: missing type") ELSE Nothing)

\* The loop over the properties, in their order.
RECURSIVE PropertiesValidation(_)
PropertiesValidation(entries) ==
    IF entries = <<>> THEN Nothing
    ELSE Push(PropertiesValidation(SubSeq(entries, 1, Len(entries) - 1)),
              PropertyValidation(entries[Len(entries)]))

\* validateInputSchema(schema, toolId)
validateInputSchema(schema) ==
    IF TypeOf(schema) # "object" \/ schema.t = "null"
    THEN OneError("inputSchema must be an object")
    ELSE Push(Push(IF schema.type # Str("object")
                   THEN OneError("inputSchema.type must be object") ELSE Nothing,
                   IF ~IsIn(schema.properties) THEN Nothing
                   ELSE IF IsArray(schema.properties)
                   THEN [errors |-> <<"properties must be an object {}, not an array []",
                                     "Fix: change properties [] to {}">>,
                         warnings |-> <<>>]
                   ELSE IF TypeOf(schema.properties) # "object"
                   THEN OneError("properties must be an object")
                   ELSE IF schema.properties.t = "null" THEN Thrown
                   ELSE PropertiesValidation(schema.properties.entries)),
              IF IsIn(schema.required) /\ ~IsArray(schema.required)
              THEN OneError("required must be an array") ELSE Nothing)

\* validateTool(tool, index): tool.name throws on a null tool; a tool that
\* is no object has no members.
validateTool(tool) ==
    IF tool.t = "null" THEN Thrown
    ELSE IF tool.t # "object"
    THEN [errors |-> <<"Missing name", "Missing inputSchema">>,
          warnings |-> <<"Missing description">>]
    ELSE Push(Push(IF ~Truthy(tool.name) THEN OneError("Missing name")
                   ELSE IF TypeOf(tool.name) # "string"
                   THEN OneError("name must be a string") ELSE Nothing,
                   IF ~Truthy(tool.description)
                   THEN OneWarning("Missing description") ELSE Nothing),
              IF ~Truthy(tool.inputSchema) THEN OneError("Missing inputSchema")
              ELSE validateInputSchema(tool.inputSchema))

\* result.tools.forEach(...): the tools in their order.
RECURSIVE ToolsValidation(_)
ToolsValidation(items) ==
    IF items = <<>> THEN Nothing
    ELSE Push(ToolsValidation(SubSeq(items, 1, Len(items) - 1)),
              validateTool(items[Len(items)]))

\* validateToolsListResponse(response)
validateToolsListResponse(response) ==
    LET rpcValidation == validateJSONRPC(response)
        result == response.result
        validated ==
            Push(rpcValidation,
                 IF ~Truthy(result.tools) THEN OneError("Missing tools array")
                 ELSE IF ~IsArray(result.tools)
                 THEN OneError("result.tools must be an array")
                 ELSE ToolsValidation(result.tools.items))
    IN  IF ~Truthy(response.result)
        THEN [valid |-> FALSE,
              errors |-> rpcValidation.errors \o <<"Missing result">>,
              warnings |-> rpcValidation.warnings]
        ELSE IF IsThrown(validated) THEN Thrown
        ELSE [valid |-> validated.errors = <<>>, errors |-> validated.errors,
              warnings |-> validated.warnings]

\* message.id && message.result && message.result.capabilities: the test of
\* handleMCPMessage() that takes a message for the initialize response and
\* goes on to listTools().
AnnouncesCapabilities(message) ==
    /\ Truthy(message.id)
    /\ Truthy(message.result)
    /\ Truthy(message.result.capabilities)

\* Nothing was validated yet.
NoValidation == [by |-> "", result |-> [errors |-> <<>>, warnings |-> <<>>]]

\* The page has no message for the validator.
NothingValidated == received = Absent /\ validation = NoValidation

\* The page validates the message as an initialize response.
ValidateInitialize ==
    /\ validation.by # "validateInitializeResponse"
    /\ validation' = [by |-> "validateInitializeResponse",
                      result |-> validateInitializeResponse(received)]
    /\ UNCHANGED <<received, sseVars, oauthVars, tokenVars, promptVars>>

\* The page validates the message as a tools/list response.
ValidateToolsList ==
    /\ received \in ToolsListResponses
    /\ validation.by # "validateToolsListResponse"
    /\ validation' = [by |-> "validateToolsListResponse",
                      result |-> validateToolsListResponse(received)]
    /\ UNCHANGED <<received, sseVars, oauthVars, tokenVars, promptVars>>

\* The page validates the message as a JSON-RPC message.
ValidateMessage ==
    /\ validation.by # "validateJSONRPC"
    /\ validation' = [by |-> "validateJSONRPC", result |-> validateJSONRPC(received)]
    /\ UNCHANGED <<received, sseVars, oauthVars, tokenVars, promptVars>>

(***************************************************************************)
(* PromptMCPClient: generateVideo() and its three methods                  *)
(***************************************************************************)

\* Number of generateVideo() calls the page makes.
MaxGenerations == 2

\* What a method returns when its fetch fails, its response is not ok or
\* its body is no JSON: null.
NoResult == JsNull

\* The JSON documents a server answers with when its response is ok.
Documents ==
    {JsNull, Bool(FALSE), Num(0), Str(""), EmptyObject,
     [t |-> "object", video |-> Str("url")]}

\* What a method can return.
MethodResults == {NoResult} \cup Documents

\* The methods of generateVideo() in the order it calls them.
Methods == <<"sendPrompt", "sendMCPPrompt", "sendQueryPrompt">>

NoOutcome == [kind |-> "none", value |-> Absent]

PromptInit ==
    /\ promptConnected = FALSE
    /\ generating = ""
    /\ tried = <<>>
    /\ yielded = <<>>
    /\ outcome = NoOutcome
    /\ promptErrors = 0
    /\ generations = 0

\* connect() of the PromptMCPClient after its OPTIONS fetch: connected is
\* set unless the fetch threw.
promptConnect(ok) ==
    /\ generating = ""
    /\ ~promptConnected
    /\ promptConnected' = ok
    /\ UNCHANGED <<generating, tried, yielded, outcome, promptErrors, generations>>
    /\ UNCHANGED <<sseVars, oauthVars, tokenVars, validatorVars>>

PromptConnect == \E ok \in BOOLEAN : promptConnect(ok)

\* disconnect() of the PromptMCPClient
promptDisconnect ==
    /\ promptConnected
    /\ promptConnected' = FALSE
    /\ UNCHANGED <<generating, tried, yielded, outcome, promptErrors, generations>>
    /\ UNCHANGED <<sseVars, oauthVars, tokenVars, validatorVars>>

\* generateVideo(prompt) up to its first await: it throws when the client is
\* not connected, before its try; otherwise sendPrompt() sends its POST.
generateVideo ==
    /\ generating = ""
    /\ generations < MaxGenerations
    /\ generations' = generations + 1
    /\ promptErrors' = 0
    /\ yielded' = <<>>
    /\ IF promptConnected
       THEN /\ generating' = Methods[1]
            /\ tried' = <<Methods[1]>>
            /\ outcome' = NoOutcome
       ELSE /\ generating' = ""
            /\ tried' = <<>>
            /\ outcome' = [kind |-> "thrown", value |-> Str("Not connected to server")]
    /\ UNCHANGED promptConnected
    /\ UNCHANGED <<sseVars, oauthVars, tokenVars, validatorVars>>

\* A generateVideo() that goes on to the next method whatever the one
\* before returned, and returns the last truthy result.
ContinueThroughAll(result) ==
    /\ yielded' = Append(yielded, result)
    /\ IF Len(tried) < Len(Methods)
       THEN /\ generating' = Methods[Len(tried) + 1]
            /\ tried' = Append(tried, Methods[Len(tried) + 1])
            /\ UNCHANGED <<outcome, promptErrors>>
       ELSE IF \E k \in 1..Len(yielded') : Truthy(yielded'[k])
       THEN /\ generating' = ""
            /\ outcome' = [kind |-> "returned", value |-> result]
            /\ UNCHANGED <<tried, promptErrors>>
       ELSE /\ generating' = ""
            /\ outcome' = [kind |-> "thrown",
                           value |-> Str("All prompt injection methods failed")]
            /\ promptErrors' = promptErrors + 1
            /\ UNCHANGED tried
    /\ UNCHANGED <<promptConnected, generations>>
    /\ UNCHANGED <<sseVars, oauthVars, tokenVars, validatorVars>>

\* The rest of generateVideo() once the method it awaits returned result:
\* a truthy result is returned; otherwise the next method sends its request;
\* after the third the error is thrown, caught, passed to onError and thrown
\* again.
Continue(result) ==
    /\ yielded' = Append(yielded, result)
    /\ IF Truthy(result)
       THEN /\ generating' = ""
            /\ outcome' = [kind |-> "returned", value |-> result]
            /\ UNCHANGED <<tried, promptErrors>>
       ELSE IF Len(tried) < Len(Methods)
       THEN /\ generating' = Methods[Len(tried) + 1]
            /\ tried' = Append(tried, Methods[Len(tried) + 1])
            /\ UNCHANGED <<outcome, promptErrors>>
       ELSE /\ generating' = ""
            /\ outcome' = [kind |-> "thrown",
                           value |-> Str("All prompt injection methods failed")]
            /\ promptErrors' = promptErrors + 1
            /\ UNCHANGED tried
    /\ UNCHANGED <<promptConnected, generations>>
    /\ UNCHANGED <<sseVars, oauthVars, tokenVars, validatorVars>>

\* sendPrompt() after its fetch: the JSON of an ok response, else null.
sendPrompt(result) == generating = "sendPrompt" /\ Continue(result)

\* sendMCPPrompt() after its fetch
sendMCPPrompt(result) == generating = "sendMCPPrompt" /\ Continue(result)

\* sendQueryPrompt() after its fetch
sendQueryPrompt(result) == generating = "sendQueryPrompt" /\ Continue(result)

DirectReply == \E result \in MethodResults : sendPrompt(result)

JsonRpcReply == \E result \in MethodResults : sendMCPPrompt(result)

QueryReply == \E result \in MethodResults : sendQueryPrompt(result)

\* One SSEMCPClient, its server and its page.
Init ==
    /\ SSEInit
    /\ OAuthInit
    /\ TokensInit
    /\ ~issuerPath
    /\ ~registration
    /\ mcpServerUrl.pathname = <<"/">>
    /\ NothingValidated
    /\ PromptInit

Next == SSENext

Spec == Init /\ [][Next]_vars

\* The same client in a page that has set the callbacks.
ObservedInit ==
    /\ SSEFields
    /\ handlers = TRUE
    /\ OAuthInit
    /\ TokensInit
    /\ ~issuerPath
    /\ ~registration
    /\ mcpServerUrl.pathname = <<"/">>
    /\ NothingValidated
    /\ PromptInit

ObservedSpec == ObservedInit /\ [][Next]_vars

\* The connection alone: connect(), the initialize exchange, the event
\* stream and disconnect().
HandshakeNext ==
    \/ connect
    \/ InitializeReply
    \/ SSEOpen
    \/ SSEError
    \/ disconnect

HandshakeSpec == ObservedInit /\ [][HandshakeNext]_vars

\* The same client with a server that may answer 401 or 403, in a page
\* whose event loop runs the continuation of every fetch that is answered.
ChallengeNext ==
    \/ SSENext
    \/ SendChallenged

ChallengeSpec ==
    /\ Init
    /\ [][ChallengeNext]_vars
    /\ WF_vars(InitializeReply \/ SendReply \/ ListReply \/ SendChallenged)

\* One MCPOAuthClient, the servers it discovers and the consent popup.
AuthInit ==
    /\ OAuthInit
    /\ SSEInit
    /\ TokensInit
    /\ framing = "json"
    /\ mcpServerUrl.pathname = <<"/">>
    /\ NothingValidated
    /\ PromptInit

OAuthSpec == AuthInit /\ [][OAuthNext]_vars

\* The discoveries of a server whose metadata is in order: each is answered
\* by a valid document at the first location.
MetadataFound ==
    \E c \in Calls :
        \/ discoverProtectedResourceMetadata(c, [kind |-> "resource", servers |-> 1])
        \/ discoverAuthorizationServer(
               c, [kind |-> "server", s256 |-> TRUE, registration |-> registration])

\* The same client up to the consent, in a page whose timers run: the
\* interval of a consent popup calls checkClosed every second until it
\* clears itself.
PopupNext ==
    \/ Authorize
    \/ MetadataFound
    \/ RegisterReply
    \/ ChallengeReady
    \/ ConsentMessage
    \/ ForgedMessage
    \/ UserClosesPopup
    \/ PopupClosed

PopupSpec ==
    /\ AuthInit
    /\ [][PopupNext]_vars
    /\ \A c \in Calls : WF_vars(checkClosed(c))

\* One MCPOAuthClient with its tokens, its page and the storage the page
\* shares with the client of another server.
TokenInit ==
    /\ OAuthInit
    /\ SSEInit
    /\ TokensInit
    /\ framing = "json"
    /\ ~issuerPath
    /\ ~registration
    /\ NothingValidated
    /\ PromptInit

TokenSpec == TokenInit /\ [][TokenNext]_vars

\* The same client under step-up challenges.
StepUp == \E requiredScopes \in Challenges : handleStepUpAuthorization(requiredScopes)

StepUpNext ==
    \/ StepUp
    \/ Discovered
    \/ Consented
    \/ Exchanged
    \/ Reload

StepUpSpec == TokenInit /\ [][StepUpNext]_vars

\* One PromptMCPClient, its server and its page.
PromptNext ==
    \/ PromptConnect
    \/ promptDisconnect
    \/ generateVideo
    \/ DirectReply
    \/ JsonRpcReply
    \/ QueryReply

PromptSpec == AuthInit /\ [][PromptNext]_vars

\* The same client up to the consent, in a window that also gets messages
\* of other origins.
ConsentNext ==
    \/ PopupNext
    \/ ForeignMessage

ConsentSpec == AuthInit /\ [][ConsentNext]_vars

\* One MCPOAuthClient from authorize() to its registration: the two
\* discoveries and registerClient().
RegistrationInit ==
    /\ OAuthInit
    /\ SSEInit
    /\ TokensInit
    /\ framing = "json"
    /\ NothingValidated
    /\ PromptInit

RegistrationNext ==
    \/ Authorize
    \/ ResourceReply
    \/ ServerReply
    \/ RegisterReply

RegistrationSpec == RegistrationInit /\ [][RegistrationNext]_vars

\* One MCPProtocolValidator and the messages a page hands to it.
ValidatorInit ==
    /\ SSEInit
    /\ OAuthInit
    /\ TokensInit
    /\ framing = "json"
    /\ ~issuerPath
    /\ ~registration
    /\ mcpServerUrl.pathname = <<"/">>
    /\ received \in Messages
    /\ validation = NoValidation
    /\ PromptInit

ValidatorNext ==
    \/ ValidateInitialize
    \/ ValidateMessage

ValidatorSpec == ValidatorInit /\ [][ValidatorNext]_vars

\* The validator and the tools/list responses handed to it.
ToolsListInit ==
    /\ SSEInit
    /\ OAuthInit
    /\ TokensInit
    /\ framing = "json"
    /\ ~issuerPath
    /\ ~registration
    /\ mcpServerUrl.pathname = <<"/">>
    /\ received \in ToolsListResponses
    /\ validation = NoValidation
    /\ PromptInit

ToolsListNext ==
    \/ ValidateToolsList
    \/ ValidateInitialize
    \/ ValidateMessage

ToolsListSpec == ToolsListInit /\ [][ToolsListNext]_vars

(***************************************************************************)
(* Claims about SSEMCPClient                                               *)
(***************************************************************************)

\* The requests of a method put on the wire so far.
SentOf(method) == {r \in sent : r.method = method}

\* The calls that registered a callback.
CallsWithCallback == {r \in sent : r.method = "tools/call" /\ r.cb}

\* C1: notifications/initialized is sent after each successful initialize and
\* before any tools/list request: whenever a tools/list request is on the
\* wire, the notification is on the wire too, and a session whose initialize
\* was answered has sent one.
C1_InitializedBeforeToolsList ==
    /\ SentOf("tools/list") # {} => SentOf("notifications/initialized") # {}
    /\ Cardinality(SentOf("notifications/initialized")) <= Cardinality(SentOf("initialize"))

\* C2: each callback is invoked with the result or error of the reply made to
\* its own call, whatever the order of arrival, and never with the reply to
\* another request.
C2_CallbackGetsOwnReply ==
    \A e \in callbackLog : e.value.by = e.call

\* C3: the id of every request sent is greater than the ids of all requests
\* sent before it, is the id getNextId issued in that step, and is not the id
\* of a pending call.
C3_IdsIncreaseAndAreFresh ==
    [][\A r \in sent' \ sent :
          /\ \A q \in sent : q.id < r.id
          /\ r.id = getNextId
          /\ ~MapHas(pendingRequests, r.id)]_vars

\* The step dispatches message m: handleMCPMessage(m) runs, from the event
\* stream or from the JSON body of a POST.
Dispatches(r, v) ==
    \/ \E e \in 1..Len(sources) : onmessage(e, r, v)
    \/ sendMessage(r, JsonBody(Reply(r, v)))

\* C4: the dispatch of a message takes exactly one path: the pending call, or
\* the handshake/catalog state, or the generic observer.
C4_DispatchTakesOnePath ==
    [][\A r \in fetches \cup stream : \A v \in Variants :
          Dispatches(r, v) => Cardinality(DispatchPaths(Reply(r, v))) = 1]_vars

\* Nothing more can arrive for request r: its POST is over and no reply is
\* due on the stream.
Settled(r) == r \notin fetches /\ r \notin stream

\* The call still has its entry in the pending map.
IsPending(r) == <<r.id, r>> \in pendingRequests

\* C5: a call that registered a callback gets exactly one invocation of it:
\* never two, and one once its record is gone or nothing more can arrive
\* for it (the reply came, the send failed, or disconnect() ran).
C5_ExactlyOneCallback ==
    \A r \in CallsWithCallback :
        /\ Invocations(r) <= 1
        /\ (Settled(r) \/ ~IsPending(r)) => Invocations(r) = 1

\* C6: disconnect() fails every pending call with a cancellation error before
\* it discards the record.
C6_DisconnectCancelsPending ==
    [][closing' =>
          \A p \in pendingRequests :
              \E e \in callbackLog' : e.call = p[2] /\ e.isError]_vars

\* C7: right after disconnect() returns, eventSource is null and the stream
\* it referred to is closed, connected is false, the catalog is empty and
\* the pending map is empty.
C7_DisconnectResets ==
    [][closing' =>
          /\ eventSource' = 0
          /\ eventSource # 0 => sources'[eventSource] = "closed"
          /\ connected' = FALSE
          /\ tools' = <<>>
          /\ pendingRequests' = {}]_vars

\* C7 witness: disconnect() has just returned, it closed a stream and it
\* dropped a call that was pending.
C7_Witness ==
    /\ closing
    /\ \E e \in 1..Len(sources) : sources[e] = "closed"
    /\ \E r \in CallsWithCallback : Invocations(r) = 0
    /\ pendingRequests = {}

\* C8: the state after a reply is the same whether the body is a plain JSON
\* document or an event frame with the same JSON: the server info after
\* initialize, the catalog after tools/list, the pending map after tools/call.
C8_FramingsAgree ==
    \A r \in fetches : \A v \in Variants :
        CASE r.via = "initializeSession" ->
                ServerInfoAfter(JsonBody(Reply(r, v))) = ServerInfoAfter(FrameBody(Reply(r, v)))
          [] r.via = "listTools" ->
                ToolsAfterList(JsonBody(Reply(r, v))) = ToolsAfterList(FrameBody(Reply(r, v)))
          [] OTHER ->
                PendingAfterSend(JsonBody(Reply(r, v))) = PendingAfterSend(FrameBody(Reply(r, v)))

(***************************************************************************)
(* Claims about MCPOAuthClient                                             *)
(***************************************************************************)

\* C9: once discovery has fetched a metadata document without S256, the
\* attempt is over: it has failed with the PKCE-rejected error, so no further
\* candidate is probed and nothing later in the cycle runs.
C9_NoS256Aborts ==
    \A c \in Calls :
        frames[c].rejected => frames[c].pc = "failed" /\ frames[c].error = "PKCERejected"

\* C10: every authorization URL and every token request is built with
\* authorization-server metadata that advertises S256.
C10_OnlyS256MetadataUsed ==
    \A q \in authRequests \cup tokenRequests : q.meta.kind = "server" /\ q.meta.s256

\* The nonce of the attempt of call c: the state its authorization URL
\* carried.
NonceOf(c) == (CHOOSE q \in authRequests : q.call = c).state

\* The calls no step of which is still to come.
Over(c) == frames[c].pc \in {"idle", "done", "failed"}

\* C11: a consent message whose state is not the nonce of a call's own
\* attempt gives that call no code: the call fails with the state-mismatch
\* error and no token request is sent for it.
C11_StateMustMatchNonce ==
    [][\A c \in Listeners : \A q \in authRequests :
          (messageHandler(PageOrigin, q.call, q.state, FALSE) /\ q.state # NonceOf(c)) =>
              /\ frames'[c].pc = "failed"
              /\ frames'[c].error = "StateMismatch"
              /\ \A t \in tokenRequests' \ tokenRequests : t.call # c]_vars

\* C12: when a code exchange finishes, accepted or rejected, the verifier and
\* the nonce are no longer in sessionStorage.
C12_ExchangeErasesPkce ==
    [][\A c \in Calls : \A ok \in BOOLEAN :
          exchangeCodeForToken(c, ok) => storedPkce' = 0]_vars

\* C13: the verifier and the nonce of an attempt that failed are erased, and
\* when no attempt is in progress neither value is held, in the object or in
\* sessionStorage.
C13_PkceOnlyDuringAttempt ==
    /\ \A c \in Calls :
          frames[c].pc = "failed" /\ frames[c].error # "TokenExchangeError" =>
              storedPkce # c
    /\ (\A c \in Calls : Over(c)) => storedPkce = 0 /\ codeVerifier = 0 /\ state = 0

\* A refresh request went out in this step.
RefreshSent == inflight'["refresh"] = inflight["refresh"] + 1

\* Nothing went out in this step: no request, no consent popup.
NothingSent == inflight' = inflight /\ requestLog' = requestLog

\* C14: the step-up counter never exceeds 3, overlapping calls included, and
\* the 4th and every later step-up call on one object throws the
\* step-up-exceeded error and sends nothing.
C14_StepUpBounded ==
    [][/\ stepUpRetryCount' <= 3
       /\ (StepUp /\ stepUpCalls >= 3) =>
              thrown' = "StepUpExceeded" /\ NothingSent]_vars

\* C14 witness: the 4th step-up call was refused while the first three are
\* still in progress.
C14_Witness ==
    /\ thrown = "StepUpExceeded"
    /\ stepUpCalls = 4
    /\ stepUpRetryCount = 3
    /\ inflight["discovery"] + inflight["consent"] + inflight["exchange"] = 3

\* C15: with an access token, its expiry and a refresh token held,
\* getAccessToken() sends a refresh request exactly when the time is at or
\* past the expiry minus 60 seconds; with more than 60 seconds left it
\* returns the token and sends nothing.
C15_RefreshIffAboutToExpire ==
    [][(/\ getAccessToken
        /\ HeldAccessToken # 0
        /\ HeldExpiresAt # 0
        /\ HeldRefreshToken # "null") =>
           /\ RefreshSent <=> now >= HeldExpiresAt - 60000
           /\ now < HeldExpiresAt - 60000 =>
                 thrown' = "" /\ NothingSent /\ accessToken' = HeldAccessToken]_vars

\* C16: with no access token in the object or in sessionStorage and a
\* refresh token in localStorage, getAccessToken() sends a refresh request
\* instead of throwing.
C16_RefreshWhenTokenAbsent ==
    [][(/\ getAccessToken
        /\ accessToken = 0
        /\ sessionTokens[Self] = NoEntry
        /\ localRefresh[Self] # NoEntry) =>
           RefreshSent /\ thrown' = ""]_vars

\* getAccessToken() would throw that authorization is required.
NeedsAuthorization == HeldAccessToken = 0

\* C17: a refresh answered invalid_grant removes the tokens of this server
\* from the object, from sessionStorage and from localStorage, throws the
\* refresh-invalid error, and leaves a state in which getAccessToken()
\* reports that authorization is required.
C17_InvalidGrantClears ==
    [][refreshAccessToken(ErrorResponse("invalid_grant")) =>
          /\ accessToken' = 0
          /\ refreshToken' = "null"
          /\ tokenExpiresAt' = 0
          /\ sessionTokens'[Self] = NoEntry
          /\ localRefresh'[Self] = NoEntry
          /\ thrown' = "RefreshInvalid"
          /\ NeedsAuthorization']_vars

\* C17 witness: a refresh was just answered invalid_grant, after tokens had
\* been obtained and stored.
C17_Witness ==
    /\ thrown = "RefreshInvalid"
    /\ "token" \in {r.kind : r \in requestLog}
    /\ "refresh" \in {r.kind : r \in requestLog}

\* The requests that carry a resource parameter.
WithResource == {r \in requestLog : r.kind \in {"authorize", "token", "refresh"}}

\* uri is scheme, host with port, and the path of url without its trailing
\* slashes; no query, no fragment.
IsCanonicalOf(uri, url) ==
    LET path == SubSeq(uri, 4, Len(uri))
    IN  /\ Len(uri) >= 3
        /\ SubSeq(uri, 1, 3) = <<url.protocol, "//", url.host>>
        /\ uri[Len(uri)] # "/"
        /\ Len(path) <= Len(url.pathname)
        /\ path = SubSeq(url.pathname, 1, Len(path))
        /\ \A i \in Len(path) + 1 .. Len(url.pathname) : url.pathname[i] = "/"
        /\ \A i \in 1..Len(uri) : uri[i] \notin {url.search, url.hash}

OwnOperation ==
    \/ authorizeCall
    \/ Discovered
    \/ Consented
    \/ Exchanged
    \/ getAccessToken
    \/ Refreshed

\* C19: no operation of this client creates, overwrites or deletes a store
\* entry of the other server: its token entries and the PKCE pair it stored.
C19_OtherServerUntouched ==
    [][OwnOperation =>
          /\ sessionTokens'[Other] = sessionTokens[Other]
          /\ localRefresh'[Other] = localRefresh[Other]
          /\ storedPkce = OtherPkce => storedPkce' = OtherPkce]_vars

\* C20: the sessionStorage entry of a server holds the access token and its
\* expiry and no refresh token; the localStorage entry holds the refresh
\* token and the scopes and no access token.
C20_StoresKeepTheirTokens ==
    \A s \in Servers :
        /\ sessionTokens[s] # NoEntry =>
              DOMAIN sessionTokens[s] = {"access_token", "expires_at"}
        /\ localRefresh[s] # NoEntry =>
              /\ DOMAIN localRefresh[s] = {"refresh_token", "scopes"}
              /\ localRefresh[s].refresh_token \in RefreshTokens

\* C20 witness: this client holds an access token and a refresh token and
\* stored both.
C20_Witness ==
    /\ accessToken # 0
    /\ refreshToken # "null"
    /\ sessionTokens[Self] # NoEntry
    /\ localRefresh[Self] # NoEntry

(***************************************************************************)
(* Claims about the session's states                                       *)
(***************************************************************************)

\* The session is a current one: initializeSession() got its response and
\* opened the stream, and disconnect() has not dropped that stream since.
SessionInitialized == sessionId # 0 /\ eventSource # 0

\* The re-sends of request r: the requests with its method and id that
\* sendMessage() put on the wire after it.
Resends(r) ==
    {q \in sent : q.method = r.method /\ q.id = r.id /\ q.via = r.via /\ q.n > r.n}

\* C21: a message answered with 401 or 403 is sent again, and at most once.
C21_ChallengedIsResent ==
    /\ [](\A r \in challenged : Cardinality(Resends(r)) <= 1)
    /\ (challenged # {}) ~> (\A r \in challenged : Resends(r) # {})

\* C23: a tools/list request is sent only on a current session, one whose
\* initialize response was received since the last connect and which no
\* disconnect has reset; otherwise listTools() sends nothing.
C23_ListToolsOnlyWhenInitialized ==
    [][\A r \in sent' \ sent : r.method = "tools/list" => SessionInitialized]_vars

\* C24: callTool on a session that is not ready (no handshake yet, or after
\* disconnect) allocates no message id, registers no pending call and sends
\* no request.
C24_CallToolOnlyWhenReady ==
    [][\A cb \in BOOLEAN :
          callTool(cb) /\ ~SessionInitialized =>
              /\ messageId' = messageId
              /\ pendingRequests' = pendingRequests
              /\ sent' = sent]_vars

(***************************************************************************)
(* Claims about refresh and step-up                                        *)
(***************************************************************************)

\* C25: at most one refresh request per expiry window: getAccessToken()
\* sends no refresh request while the refresh another call started for the
\* same token is still awaited.
C25_OneRefreshPerExpiry ==
    [][getAccessToken /\ RefreshSent => inflight["refresh"] = 0]_vars

\* The names of a scope string.
Names(scope) == {scope[k] : k \in 1..Len(scope)}

\* C30: a step-up that is let through asks authorize() for exactly the union
\* of the scopes granted to the context and the scopes of the challenge,
\* each name once: no scope granted before is missing.
C30_StepUpRequestsUnion ==
    [][\A requiredScopes \in Challenges :
          handleStepUpAuthorization(requiredScopes)
                /\ stepUpRetryCount < maxStepUpRetries =>
              /\ Names(requestedScopes') = Names(grantedScopes) \cup Names(requiredScopes)
              /\ Len(requestedScopes') = Cardinality(Names(requestedScopes'))]_vars

\* The promise of the consent popup of call c is pending.
ConsentPending(c) == frames[c].pc \in {"popup", "closed", "abandoned"}

\* C22: once the consent popup is closed without a result, the pending
\* authorization does not stay pending: it rejects, with the cancellation
\* error when checkClosed is what ends it.
C22_ClosedPopupRejects ==
    /\ \A c \in Calls : (frames[c].pc = "closed") ~> ~ConsentPending(c)
    /\ [][\A c \in Calls : checkClosed(c) =>
             frames'[c].pc = "failed" /\ frames'[c].error = "ConsentCancelled"]_vars

\* C22 witness: the popup was closed on a waiting call and the call was
\* rejected as cancelled.
C22_Witness ==
    \E c \in Calls : frames[c].pc = "failed" /\ frames[c].error = "ConsentCancelled"

(***************************************************************************)
(* Claims about discovery and registration                                 *)
(***************************************************************************)

\* The document is a valid one: an ok response that names an authorization
\* server.
NamesServers(doc) == doc # NoDoc /\ ~LacksServers(doc)

\* C28: resource discovery probes the path-specific location first and the
\* bare one last; a valid document with authorization servers ends the
\* probing at once; a candidate that yields none is followed by the next
\* one, and after the last one the discovery fails with a discovery error.
C28_ResourceDiscoveryOrder ==
    [][/\ wellKnownPaths[1] = <<WellKnownResource>> \o basePath
       /\ wellKnownPaths[Len(wellKnownPaths)] = <<WellKnownResource>>
       /\ \A c \in Calls : authorize(c) =>
              frames'[c].pc = "resource" /\ frames'[c].i = 1
       /\ \A c \in Calls : \A doc \in ResourceDocs \cup {NoDoc} :
              discoverProtectedResourceMetadata(c, doc) =>
                  /\ frames[c].i \in 1..Len(wellKnownPaths)
                  /\ NamesServers(doc) => frames'[c].pc = "server"
                  /\ ~NamesServers(doc) /\ frames[c].i < Len(wellKnownPaths) =>
                        /\ frames'[c].pc = "resource"
                        /\ frames'[c].i = frames[c].i + 1
                  /\ ~NamesServers(doc) /\ frames[c].i = Len(wellKnownPaths) =>
                        /\ frames'[c].pc = "failed"
                        /\ frames'[c].error = "AuthDiscoveryError"]_vars

\* C28 witness: one call found its document at the first location and went
\* on to the authorization server, another probed both locations in vain.
C28_Witness ==
    /\ Len(basePath) > 0
    /\ \E c \in Calls : frames[c].pc = "server"
    /\ \E c \in Calls : frames[c].pc = "failed" /\ frames[c].error = "AuthDiscoveryError"
    /\ resourceMetadata # Null

\* C29: registerClient() sends a registration request exactly when no client
\* id is stored and the metadata has a registration endpoint; the id it then
\* persists is the one the registration returned; a stored id is reused
\* unchanged, without a request.
C29_RegistersIffNeeded ==
    [][/\ \A c \in Calls : \A doc \in ServerDocs :
              discoverAuthorizationServer(c, doc) /\ ~LacksS256(doc) =>
                  /\ frames'[c].pc = "register" <=>
                        (storedClientId = "null" /\ doc.registration)
                  /\ storedClientId # "null" =>
                        /\ clientId' = storedClientId
                        /\ storedClientId' = storedClientId
                        /\ frames'[c].pc = "challenge"
       /\ \A c \in Calls : registerClient(c, TRUE) =>
              storedClientId' = "registered" /\ clientId' = "registered"]_vars

\* C29 witness: a registration returned an id, it is the one stored, and a
\* later call took it from the store.
C29_Witness ==
    /\ storedClientId = "registered"
    /\ clientId = "registered"
    /\ \A c \in Calls : frames[c].pc = "challenge"

(***************************************************************************)
(* Claims about MCPProtocolValidator                                       *)
(***************************************************************************)

\* capabilities.tools, .resources or .prompts of the response is an array.
HasArrayCapability(response) ==
    /\ Truthy(response.result)
    /\ response.result.capabilities.t = "object"
    /\ \/ IsArray(response.result.capabilities.tools)
       \/ IsArray(response.result.capabilities.resources)
       \/ IsArray(response.result.capabilities.prompts)

\* C26: validateInitializeResponse() returns valid = false for every
\* initialize response one of whose capabilities is an array, and the
\* session still takes such a response for the initialize response and goes
\* on with the handshake.
C26_ArrayCapabilityIsInvalid ==
    validation.by = "validateInitializeResponse" /\ HasArrayCapability(received) =>
        /\ validation.result.valid = FALSE
        /\ Truthy(received.id) => AnnouncesCapabilities(received)

\* C26 witness: a response that is well formed but for prompts being an
\* array was validated, and that is its only error.
C26_Witness ==
    /\ validation.by = "validateInitializeResponse"
    /\ received.jsonrpc = Str("2.0")
    /\ received.id = Num(1)
    /\ ~IsIn(received.error)
    /\ Truthy(received.result)
    /\ received.result.protocolVersion = protocolVersion
    /\ received.result.capabilities =
          [t |-> "object", tools |-> EmptyObject, resources |-> Absent,
           prompts |-> EmptyArray]
    /\ Len(validation.result.errors) = 1
    /\ AnnouncesCapabilities(received)

\* The errors of a validation that are about result and error.
ResultErrorErrors ==
    {k \in 1..Len(validation.result.errors) :
        validation.result.errors[k] \in
            {"response must have either result or error",
             "response cannot have both result and error"}}

\* C27: for a message with an id that is not null, validateJSONRPC()
\* reports an error when the message has both result and error or neither,
\* and no error about result and error when it has exactly one of them.
C27_ResultXorError ==
    validation.by = "validateJSONRPC" /\ IsIn(received.id) /\ received.id.t # "null" =>
        (ResultErrorErrors # {} <=> (IsIn(received.result) <=> IsIn(received.error)))

\* C27 witness: a message with an id and both result and error was
\* validated.
C27_Witness ==
    /\ validation.by = "validateJSONRPC"
    /\ received.id = Num(1)
    /\ IsIn(received.result)
    /\ IsIn(received.error)
    /\ ResultErrorErrors # {}

(***************************************************************************)
(* Claims about the expiry and the step-up counter                         *)
(***************************************************************************)

\* C31: after an ok token response, to a code exchange or to a refresh, the
\* stored expiry is the time of the response plus the lifetime issued with
\* the new token; it is never the expiry of the token held before.
C31_ExpiryIsOfNewToken ==
    [][/\ \A resp \in TokenResponses :
             authorizeExchanged(resp) =>
                 /\ resp.expires_in # 0 => tokenExpiresAt' = now + resp.expires_in * 1000
                 /\ resp.expires_in = 0 /\ tokenExpiresAt # 0 =>
                        tokenExpiresAt' # tokenExpiresAt
       /\ \A resp \in RefreshResponses :
             refreshAccessToken(resp) =>
                 /\ resp.expires_in # 0 => tokenExpiresAt' = now + resp.expires_in * 1000
                 /\ resp.expires_in = 0 /\ tokenExpiresAt # 0 =>
                        tokenExpiresAt' # tokenExpiresAt]_vars

\* An authorize() call completed: its code exchange was answered with tokens.
AuthorizeCompleted == \E resp \in TokenResponses : authorizeExchanged(resp)

\* C32: the step-up counter is zero again once a full re-authorization for
\* the same server has completed successfully.
C32_ReauthorizationResetsCounter ==
    [][AuthorizeCompleted => stepUpRetryCount' = 0]_vars

(***************************************************************************)
(* Claims about connect() and disconnect()                                 *)
(***************************************************************************)

\* C33: when the initialize exchange of connect() fails, by a network error
\* or a status that is not ok, connect() opens no event stream, leaves
\* connected as it is (false), invokes onError exactly once and sends
\* nothing again.
C33_FailedInitializeSurfacesOnce ==
    [][\A r \in fetches :
          initializeSession(r, Failure) =>
              /\ sources' = sources
              /\ eventSource' = eventSource
              /\ connected' = connected
              /\ fired' = <<"onError">>
              /\ sent' = sent
              /\ fetches' = fetches \ {r}]_vars

\* C33 witness: the only initialize exchange failed and onError was invoked;
\* there is no stream and nothing is awaited.
C33_Witness ==
    /\ fired = <<"onError">>
    /\ Cardinality(sent) = 1
    /\ \A r \in sent : r.via = "initializeSession"
    /\ fetches = {}
    /\ sources = <<>>
    /\ ~connected

(***************************************************************************)
(* Claims about the consent listener                                       *)
(***************************************************************************)

\* C34: a message of another origin than the page's that reaches the consent
\* listener is ignored: the popup stays open and the listener registered
\* (every call stays where it is), and the pending authorization is neither
\* resolved (no code exchange is sent) nor rejected.
C34_ForeignMessageIgnored ==
    [][ForeignMessage =>
          /\ frames' = frames
          /\ Listeners' = Listeners
          /\ tokenRequests' = tokenRequests]_vars

\* C34 witness: the window got a message of another origin while a consent
\* popup was open, and the call still waits for its consent.
C34_Witness ==
    /\ messageOrigin = ForeignOrigin
    /\ \E c \in Calls : frames[c].pc = "popup"

(***************************************************************************)
(* Claims about the PromptMCPClient                                        *)
(***************************************************************************)

\* The methods tried so far all returned a falsy value (null for a failed
\* request, or a falsy JSON document).
AllYieldedNothing == \A k \in 1..Len(yielded) : ~Truthy(yielded[k])

\* C35: generateVideo() on a connected client tries the direct POST, then
\* the JSON-RPC POST, then the query GET, in that order; a method is tried
\* only when the ones before it yielded nothing; the first result that is
\* not empty is returned and no later method is tried; the call fails, with
\* onError invoked once, only when all three yielded nothing.
C35_FirstSuccessWins ==
    /\ Len(tried) <= Len(Methods)
    /\ \A k \in 1..Len(tried) : tried[k] = Methods[k]
    /\ \A k \in 1..Len(tried) : k < Len(tried) => ~Truthy(yielded[k])
    /\ outcome.kind = "returned" =>
          /\ Len(yielded) = Len(tried)
          /\ outcome.value = yielded[Len(yielded)]
          /\ Truthy(outcome.value)
          /\ promptErrors = 0
    /\ outcome.kind = "thrown" /\ tried # <<>> =>
          /\ tried = Methods
          /\ Len(yielded) = Len(Methods)
          /\ AllYieldedNothing
          /\ promptErrors = 1
    /\ outcome.kind = "none" => promptErrors = 0
    /\ Len(yielded) = Len(Methods) /\ AllYieldedNothing => outcome.kind = "thrown"

\* C35 witness: the direct POST yielded nothing, the JSON-RPC POST a result,
\* which was returned; the query GET was not tried.
C35_Witness ==
    /\ outcome.kind = "returned"
    /\ tried = <<"sendPrompt", "sendMCPPrompt">>
    /\ yielded[1] = NoResult
    /\ outcome.value = [t |-> "object", video |-> Str("url")]

(***************************************************************************)
(* Claims about disconnect() and overlapping connect() calls               *)
(***************************************************************************)

\* C36: once disconnect() has returned, what happens next, unless it is a
\* connect() call, leaves connected false and the catalog empty, opens no
\* event stream and invokes neither onConnected nor onToolsReceived nor the
\* callback of a call: also when it is the reply to a request sent before
\* the disconnect, or the end of an initialize exchange started before it.
C36_DisconnectedStaysQuiet ==
    [][closing /\ ~connect =>
          /\ ~connected'
          /\ tools' = <<>>
          /\ sources' = sources
          /\ eventSource' = 0
          /\ callbackLog' = callbackLog
          /\ \A k \in 1..Len(fired') :
                fired'[k] \notin {"onConnected", "onToolsReceived"}]_vars

\* The EventSource objects that are not closed: connecting or open.
OpenSources == {e \in 1..Len(sources) : sources[e] # "closed"}

\* C37: a client holds at most one event stream that is not closed, the one
\* this.eventSource refers to, overlapping connect() calls included; and
\* connect() on a connected client sends nothing.
C37_OneEventSource ==
    /\ [](Cardinality(OpenSources) <= 1 /\ OpenSources \subseteq {eventSource})
    /\ [][connect /\ connected => sent' = sent /\ fetches' = fetches]_vars

(***************************************************************************)
(* Claims about the proof key and the refresh                              *)
(***************************************************************************)

\* C38: the verifier a code exchange submits is the one whose challenge the
\* authorization request of the same authorize() call carried (the call's
\* own), and no authorization code is submitted to the token endpoint more
\* than once, overlapping authorize() calls included.
C38_OwnVerifierAndCodeOnce ==
    /\ \A t \in tokenRequests : t.verifier = t.call
    /\ \A t \in tokenRequests : \A u \in tokenRequests : t.code = u.code => t = u

\* C39: a refresh that fails with another error than invalid_grant leaves
\* the access token, the refresh token, the expiry and the scopes as they
\* are, in the object and in both stores, and the error is thrown to the
\* caller.
C39_FailedRefreshKeepsTokens ==
    [][refreshAccessToken(ErrorResponse("server_error")) =>
          /\ accessToken' = accessToken
          /\ refreshToken' = refreshToken
          /\ tokenExpiresAt' = tokenExpiresAt
          /\ scopes' = scopes
          /\ sessionTokens' = sessionTokens
          /\ localRefresh' = localRefresh
          /\ thrown' = "TokenRefreshError"]_vars

\* C39 witness: a refresh failed and the tokens are all held still.
C39_Witness ==
    /\ thrown = "TokenRefreshError"
    /\ accessToken # 0
    /\ refreshToken # "null"
    /\ tokenExpiresAt # 0
    /\ sessionTokens[Self] # NoEntry
    /\ localRefresh[Self] # NoEntry

(***************************************************************************)
(* Claims about the validator's results                                    *)
(***************************************************************************)

\* C40: validateInitializeResponse() and validateToolsListResponse() return
\* an object of valid, errors and warnings, valid being true exactly when
\* errors is empty, for every JSON object handed to them, one with a null
\* tool or a null property definition included: they never throw.
C40_ValidatorsAlwaysReturn ==
    validation.by \in {"validateInitializeResponse", "validateToolsListResponse"} =>
        /\ ~IsThrown(validation.result)
        /\ DOMAIN validation.result = {"valid", "errors", "warnings"}
        /\ validation.result.valid <=> validation.result.errors = <<>>

====
